---- MODULE Spec2Model ----
(***************************************************************************)
(* Model of the proxy-balancer of eugenever/tiler                          *)
(* (server/rust/proxy-balancer): the admission semaphore service           *)
(* (tasks/semaphore.rs) with the tile endpoint that uses it, the worker    *)
(* pool manager (tasks/workers.rs), the Postgres job queue with its runner *)
(* (db/job/postgres.rs, tasks/job.rs), the request router (handles/mod.rs  *)
(* and handles/endpoints), the scheduled reloader                          *)
(* (tasks/reload_workers.rs), the cache-DB handle registry                 *)
(* (tasks/sqlite_clients.rs) and the datasource fan-out                    *)
(* (handles/endpoints/datasource.rs).                                      *)
(*                                                                         *)
(* The specifications share the variables: SemSpec, WorkerSpec, JobSpec,   *)
(* RouterSpec, PyramidSpec, ReloadSpec, InterlockSpec, SqliteSpec,         *)
(* RebuildSpec, FanSpec and ClusterSpec. Each one runs the actions of one  *)
(* subsystem, with the messages it sends to the others handled where they  *)
(* are sent, and leaves the other variables as they are. PyramidSpec is    *)
(* the router with the pyramid requests that push scheduled jobs,          *)
(* InterlockSpec the reloader next to the request handlers that talk to    *)
(* the pool manager, RebuildSpec the registry with the local pyramid       *)
(* requests that delete a cache DB (handles/endpoints/pyramid.rs),         *)
(* ClusterSpec the masters of a cluster that ask each other to reload the  *)
(* datasources (tasks/datasources.rs, utils.rs). SemFairSpec and           *)
(* JobFairSpec add the fairness of the tasks to SemSpec and JobSpec.       *)
(***************************************************************************)
EXTENDS Integers, Sequences, FiniteSets, TLC

(***************************************************************************)
(* Bounds                                                                  *)
(***************************************************************************)
\* config.max_concurrent_tile_requests: read from config_app.json, no default
max_concurrent_tile_requests == 1
\* worker ports that tile requests may name (port 1 is the pool at startup,
\* the others are workers added later, whose semaphore is created lazily)
NumPorts == 2
\* tile requests, one GetPermit each
NumReqs == 3
\* largest n of AddPermits{n} / ForgetPermits{n}
MaxDelta == 3
\* AddPermits / ForgetPermits requests accepted by the maintenance endpoint
MaxChanges == 2
\* messages in flight on the semaphore service's inbox
MaxChan == 2

\* config.worker_port_from..worker_port_to, taken as 1..RangeSize
RangeSize == 3
\* config.processes_workers (config.rs:152 requires it to fit the range)
processes_workers == 2
\* largest count of AddWorkers{count}
MaxAddWorkers == 2
\* GetWorkerData replies recorded between two changes of the pool
MaxCalls == 5

\* defaults::JOB_CONCURRENCY (used at job.rs:80,89 and postgres.rs:175; the
\* file that sets it is not among the sources, so it is a parameter here)
JOB_CONCURRENCY == 2
\* rows ever pushed to the queue table
MaxJobs == 4
\* the clock runs over 0..MaxTime
MaxTime == 1
\* nodes whose job runner polls the shared queue table
NumRunners == 2
\* postgres.rs:18
MAX_FAILED_ATTEMPTS == 3

\* servers of the cluster that a datasource may name as its host:port
NumAddrs == 2
\* requests that clients send to the datasource API of the cluster
MaxWrites == 2

\* config.worker_reload_repeat_attempts and config.worker_reload_repeat_minutes
worker_reload_repeat_attempts == 2
worker_reload_repeat_minutes == 1
\* datasources, each with its cache DB {cwd}/tiles/{ds}/{ds}.mbtiles
NumDatasources == 2
\* handles the registry and add_sqlite_client open in a run
MaxClients == 3
\* scheduled pyramid requests the router accepts
MaxScheduled == 2

\* calendar triggers of the scheduled reloader
MaxTriggers == 3
\* messages of request handlers that the manager handles next to them
MaxManual == 2
\* seconds by which the clock moves on, and the last second it reaches
ClockStep == 20
MaxNow == 120

Ports == 1..NumPorts
PortRange == 1..RangeSize
JobIds == 1..MaxJobs
Runners == 1..NumRunners
\* HTTP statuses a dispatch may be answered with
Statuses == {101, 200, 399, 404, 650}
InitPorts == {1}
Reqs == 1..NumReqs

VARIABLES
  \* ---- admission semaphore service (tasks/semaphore.rs) ----
  semaphores_map,             \* port -> available permits of its semaphore
  number_concurrent_requests, \* capacity tracked by the release-watch loop
  watch_task,                 \* release-watch task: running / wrapped / panicked
  rx,                         \* inbox of the waiter loop (MessageSemaphore)
  rx_change_permits,          \* Increase / Decrease messages for the watch loop
  senders_map,                \* port -> FIFO of reply senders (request ids)
  st,                         \* per tile request: where its handler stands
  rport,                      \* per tile request: the worker port it was given
  capacity,                   \* history: permits created minus permits forgotten
  arrival,                    \* history: the waiters in the order they were queued,
                              \*   and whether permits of the port were held then
  changes,                    \* history: AddPermits/ForgetPermits accepted
  last_decrease,              \* history: per port, the permits held and
                              \*   available when the last Decrease was applied
  \* ---- worker pool manager (tasks/workers.rs) ----
  ports,                      \* Vec<u16>: the ports of the pool, in order
  childs,                     \* keys of HashMap<u16, Child>
  clients,                    \* Vec<Client<HttpConnector>>, as its length
  index_port,                 \* round-robin counter
  count_ports,                \* cached ports.len()
  manager_alive,              \* FALSE once the manager task panicked
  served,                     \* history: GetWorkerData replies since the pool
                              \*   last changed
  killed_childs,              \* history: ports of the children killed by the
                              \*   last message the manager handled
  spawned_ports,              \* history: ports of the workers it spawned
  \* ---- job queue (db/job/postgres.rs) and runner (tasks/job.rs) ----
  queue,                      \* committed rows of table queue: job_id -> row
  row_lock,                   \* job_id -> runner whose open pull selected the
                              \*   row FOR UPDATE (0: not locked)
  now,                        \* chrono::Utc::now()
  pc,                         \* per runner: position in the job_worker loop
  jobs,                       \* per runner: the Vec<Job> of this iteration
  response,                   \* per runner: outcome of the dispatch: a
                              \*   status, or 0 (no response)
  dispatched,                 \* history: per row of the queue, the number of
                              \*   times a runner dispatched the job
  \* ---- request router (handles/mod.rs) ----
  config,                     \* Config: master, address
  handled,                    \* history: the last request handled, what it
                              \*   read and what the handler did
  \* ---- scheduled reloader (tasks/reload_workers.rs) ----
  utc_now,                    \* chrono::Utc::now(), in seconds
  last_reload_time,           \* the manager's Option<DateTime<Utc>>
  pyramids_running,           \* table pyramids has a row with complete = 0
  sched,                      \* the closure of the trigger: position, loop
                              \*   index i, time of the interval's next tick
  triggers,                   \* history: per trigger, when and what the
                              \*   manager answered, the checks made, the
                              \*   ReloadWorkers sent
  manual,                     \* history: the messages of request handlers
                              \*   that the manager handled, and for a
                              \*   ReloadWorkers when
  \* ---- cache-DB handle registry (tasks/sqlite_clients.rs) ----
  sqlite_clients,             \* the HashMap, as its (path, handle) pairs
  closed_clients,             \* handles the registry has called close() on
  clients_opened,             \* handles opened so far: the next one's name
  tiles_dirs,                 \* datasources whose directory tiles/{ds} exists
  mbtiles_files,              \* datasources whose cache DB file exists
  initing,                    \* init_mbtiles_db has created the file and has
                              \*   not yet added its handle
  lazy_clients,               \* history: handles opened by GetSQLiteClient
  sqlite_done,                \* history: the last message the registry handled
  removing,                   \* pyramid requests between RemoveSQLiteClient
                              \*   and remove_mbtiles_files, by datasource
  \* ---- datasource fan-out (handles/endpoints/datasource.rs) ----
  fan,                        \* the datasource request in flight
  ds_handled,                 \* history: the last datasource response
  \* ---- masters refreshing each other (tasks/datasources.rs, utils.rs) ----
  configs,                    \* per server: its Config (master, address)
  rx_dss,                     \* per server: inbox of datasources_maintenance
                              \*   (UpdateDataSources messages)
  requests,                   \* GET /api/datasources sent by worker_load_dss
                              \*   and not yet answered
  written,                    \* datasource requests of clients so far
  refreshes                   \* history: per request of a client, the
                              \*   refresh requests sent because of it

semVars == <<semaphores_map, number_concurrent_requests, watch_task, rx,
             rx_change_permits, senders_map, st, rport, capacity, arrival,
             changes, last_decrease>>

workerVars ==
  <<ports, childs, clients, index_port, count_ports, manager_alive, served,
    killed_childs, spawned_ports>>

jobVars == <<queue, row_lock, now, pc, jobs, response, dispatched>>

routerVars == <<config, handled>>

reloadVars ==
  <<utc_now, last_reload_time, pyramids_running, sched, triggers, manual>>

dsVars ==
  <<sqlite_clients, closed_clients, clients_opened, tiles_dirs, mbtiles_files,
    initing, lazy_clients, sqlite_done, removing, fan, ds_handled>>

clusterVars == <<configs, rx_dss, requests, written, refreshes>>

vars ==
  <<semVars, workerVars, jobVars, routerVars, reloadVars, dsVars, clusterVars>>

(***************************************************************************)
(* Helpers                                                                 *)
(***************************************************************************)
Min(a, b) == IF a < b THEN a ELSE b

\* the orders in which a HashMap with key set S may be iterated
Perms(S) ==
  {s \in [1..Cardinality(S) -> S] : \A i, j \in DOMAIN s : i # j => s[i] # s[j]}

Msg(t, p, r, n) == [type |-> t, port |-> p, req |-> r, n |-> n]

\* st[r]: "idle" (no request yet), "waiting" (GetPermit sent, awaiting the
\* reply), "holding" (owns a permit, proxying), "refused" (reply sender dropped
\* without a permit, proxying without one), "done" (finished, permit given
\* back), "done_nopermit" (finished, never had one), "gone" (cancelled while
\* waiting).

\* permits of port p that a tile handler currently owns
Held(p) == Cardinality({r \in Reqs : st[r] = "holding" /\ rport[r] = p})

(***************************************************************************)
(* tokio::sync::Semaphore, as the service uses it                          *)
(***************************************************************************)
\* acquire_owned on a semaphore with avail > 0 permits available
AcquireLeak(avail) == avail
AcquireOwned(avail) == avail - 1

\* forget_permits(n): takes at most the available permits, returns how many
ForgetPermitsNone(avail, n) == 0
ForgetPermits(avail, n) == Min(n, avail)

(***************************************************************************)
(* Tile endpoint (handles/endpoints/tile.rs), admission part               *)
(***************************************************************************)
\* tile.rs:153-160: send GetPermit{port, tx_permit}, then await rx_permit.
\* (Request ids are names only: they are handed out in increasing order.)
TileGetPermit(r, p) ==
  /\ st[r] = "idle"
  /\ \A q \in Reqs : q < r => st[q] # "idle"
  /\ Len(rx) < MaxChan
  /\ st' = [st EXCEPT ![r] = "waiting"]
  /\ rport' = [rport EXCEPT ![r] = p]
  /\ rx' = Append(rx, Msg("GetPermit", p, r, 0))
  /\ UNCHANGED <<semaphores_map, number_concurrent_requests, watch_task,
                 rx_change_permits, senders_map, capacity, arrival,
                 changes, last_decrease>>
  /\ UNCHANGED <<workerVars, jobVars, routerVars, reloadVars,
                 dsVars, clusterVars>>

\* does the handler give its permit back when the proxied call ends this way
DropsPermitOkOnly(outcome) == outcome = "ok"
DropsPermit(outcome) == outcome \in {"ok", "err"}

\* tile.rs:162-184: the proxied call ends (Ok or Err), the permit is dropped
TileFinish(r, outcome) ==
  /\ st[r] = "holding"
  /\ st' = [st EXCEPT ![r] = "done"]
  /\ semaphores_map' =
       IF DropsPermit(outcome)
       THEN [semaphores_map EXCEPT ![rport[r]] = @ + 1]
       ELSE semaphores_map
  /\ UNCHANGED <<number_concurrent_requests, watch_task, rx, rx_change_permits,
                 senders_map, rport, capacity, arrival, changes,
                 last_decrease>>
  /\ UNCHANGED <<workerVars, jobVars, routerVars, reloadVars,
                 dsVars, clusterVars>>

\* tile.rs:160-184 when rx_permit.await is Err (the sender was dropped):
\* the request is proxied all the same and there is no permit to drop
TileFinishNoPermit(r) ==
  /\ st[r] = "refused"
  /\ st' = [st EXCEPT ![r] = "done_nopermit"]
  /\ UNCHANGED <<semaphores_map, number_concurrent_requests, watch_task, rx,
                 rx_change_permits, senders_map, rport, capacity, arrival, changes,
                 last_decrease>>
  /\ UNCHANGED <<workerVars, jobVars, routerVars, reloadVars,
                 dsVars, clusterVars>>

\* the client goes away and hyper drops the handler future: a waiting
\* handler drops rx_permit, a holding one drops its permit
TileCancel(r) ==
  /\ st[r] \in {"waiting", "holding"}
  /\ st' = [st EXCEPT ![r] = IF st[r] = "holding" THEN "done" ELSE "gone"]
  /\ semaphores_map' =
       IF st[r] = "holding"
       THEN [semaphores_map EXCEPT ![rport[r]] = @ + 1]
       ELSE semaphores_map
  /\ UNCHANGED <<number_concurrent_requests, watch_task, rx, rx_change_permits,
                 senders_map, rport, capacity, arrival, changes,
                 last_decrease>>
  /\ UNCHANGED <<workerVars, jobVars, routerVars, reloadVars,
                 dsVars, clusterVars>>

(***************************************************************************)
(* Maintenance endpoint (handles/endpoints/maintenance.rs)                 *)
(***************************************************************************)
\* increase_limit_cr / decrease_limit_cr: send AddPermits{n} / ForgetPermits{n}
MaintenanceChangeLimit(t, n) ==
  /\ changes < MaxChanges
  /\ Len(rx) < MaxChan
  /\ rx' = Append(rx, Msg(t, 0, 0, n))
  /\ changes' = changes + 1
  /\ UNCHANGED <<semaphores_map, number_concurrent_requests, watch_task,
                 rx_change_permits, senders_map, st, rport, capacity, arrival,
                 last_decrease>>
  /\ UNCHANGED <<workerVars, jobVars, routerVars, reloadVars,
                 dsVars, clusterVars>>

(***************************************************************************)
(* semaphore_maintenance: the waiter loop (semaphore.rs:111-192)           *)
(***************************************************************************)
\* sm.acquire_owned() then sender.send(permit) to request r on port p.
\* If the receiver is gone the permit comes back in the Err and is dropped.
\* avail is the available count before the acquire.
AfterSend(avail, r) ==
  IF st[r] = "waiting" THEN AcquireOwned(avail) ELSE avail

StAfterSend(r) ==
  IF st[r] = "waiting" THEN [st EXCEPT ![r] = "holding"] ELSE st

\* the reply sender of r is dropped without a permit: rx_permit.await is Err
StAfterDrop(r) ==
  IF st[r] = "waiting" THEN [st EXCEPT ![r] = "refused"] ELSE st

\* which end of the port's deque ReleasedPermit takes
PopFrontIndex(deque) == 1

WithoutIndex(deque, i) ==
  [k \in 1..(Len(deque) - 1) |-> IF k < i THEN deque[k] ELSE deque[k + 1]]

\* semaphore.rs:119-137
OnReleasedPermit(p) ==
  IF p \in DOMAIN senders_map /\ senders_map[p] # <<>>
  THEN LET i == PopFrontIndex(senders_map[p])
           sender == senders_map[p][i]
       IN /\ senders_map' = [senders_map EXCEPT ![p] = WithoutIndex(@, i)]
          /\ IF p \in DOMAIN semaphores_map /\ semaphores_map[p] > 0
             THEN /\ semaphores_map' =
                       [semaphores_map EXCEPT ![p] = AfterSend(@, sender)]
                  /\ st' = StAfterSend(sender)
             ELSE /\ st' = StAfterDrop(sender)
                  /\ UNCHANGED <<semaphores_map>>
          /\ UNCHANGED <<capacity, arrival, rx_change_permits>>
  ELSE UNCHANGED <<senders_map, semaphores_map, st, capacity,
                   arrival, rx_change_permits>>

\* semaphore.rs:138-172
OnGetPermit(p, r) ==
  IF p \in DOMAIN semaphores_map
  THEN IF semaphores_map[p] > 0
       THEN /\ semaphores_map' = [semaphores_map EXCEPT ![p] = AfterSend(@, r)]
            /\ st' = StAfterSend(r)
            /\ UNCHANGED <<senders_map, capacity, arrival, rx_change_permits>>
       ELSE /\ senders_map' =
                 IF p \in DOMAIN senders_map
                 THEN [senders_map EXCEPT ![p] = Append(@, r)]
                 ELSE [q \in DOMAIN senders_map \cup {p} |->
                         IF q = p THEN <<r>> ELSE senders_map[q]]
            /\ arrival' = Append(arrival, [req |-> r, booked |-> Held(p) > 0])
            /\ UNCHANGED <<semaphores_map, st, capacity,
                           rx_change_permits>>
  ELSE /\ semaphores_map' =
            [q \in DOMAIN semaphores_map \cup {p} |->
               IF q = p THEN AfterSend(max_concurrent_tile_requests, r)
               ELSE semaphores_map[q]]
       /\ capacity' =
            [q \in DOMAIN capacity \cup {p} |->
               IF q = p THEN max_concurrent_tile_requests ELSE capacity[q]]
       /\ st' = StAfterSend(r)
       /\ UNCHANGED <<senders_map, arrival, rx_change_permits>>

\* semaphore.rs:173-188
\* (send_async fails, and is only logged, once the release-watch task and with
\* it the last receiver of the channel is gone)
OnChangePermits(t, n) ==
  /\ rx_change_permits' =
       IF watch_task = "panicked"
       THEN rx_change_permits
       ELSE Append(rx_change_permits,
                   [type |-> IF t = "AddPermits" THEN "Increase" ELSE "Decrease",
                    n |-> n])
  /\ UNCHANGED <<semaphores_map, senders_map, st, capacity, arrival>>

\* one iteration of `while let Ok(message) = rx.recv_async().await`
WaiterLoop ==
  /\ rx # <<>>
  /\ rx' = Tail(rx)
  /\ LET m == Head(rx)
     IN CASE m.type = "ReleasedPermit" -> OnReleasedPermit(m.port)
          [] m.type = "GetPermit" -> OnGetPermit(m.port, m.req)
          [] OTHER -> OnChangePermits(m.type, m.n)
  /\ UNCHANGED <<number_concurrent_requests, watch_task, rport, changes,
                 last_decrease>>
  /\ UNCHANGED <<workerVars, jobVars, routerVars, reloadVars,
                 dsVars, clusterVars>>

(***************************************************************************)
(* semaphore_maintenance: the release-watch loop (semaphore.rs:56-109)     *)
(*                                                                         *)
(* number_concurrent_requests is a usize.  The model keeps it as an        *)
(* integer that stands for its value modulo 2^64: a negative number is a   *)
(* wrapped counter (release build).  With overflow checks (debug build)    *)
(* the subtraction panics instead and the task ends.  watch_task records   *)
(* which of the two the build did at the first such event.                 *)
(*                                                                         *)
(* The loop holds the read lock of semaphores_map for a whole iteration,   *)
(* so the waiter loop (write lock) cannot interleave.  Permit drops by     *)
(* tile handlers can, but a drop between the visits of two ports acts like *)
(* a drop before or after the iteration, because a visit reads and writes  *)
(* the visited semaphore only.  One iteration is therefore one step.       *)
(***************************************************************************)
\* semaphore.rs:67-79
DeltaPermits ==
  IF rx_change_permits = <<>> THEN 0
  ELSE IF Head(rx_change_permits).type = "Increase"
       THEN Head(rx_change_permits).n
       ELSE 0 - Head(rx_change_permits).n

\* semaphore.rs:93-97 for one semaphore: permits forgotten by this visit
Forgotten(p, delta) ==
  IF delta < 0 THEN ForgetPermits(semaphores_map[p], 0 - delta) ELSE 0

\* semaphore.rs:68,96: actual_n is overwritten at every visit, the value
\* left after the loop is the one of the semaphore visited last
ActualN(ord, delta) ==
  IF ord = <<>> THEN 0 ELSE Forgotten(ord[Len(ord)], delta)

\* semaphore.rs:100-106
TrackedNoAdd(n, delta, actual_n, len) ==
  IF len > 0 /\ delta < 0 THEN n - actual_n ELSE n
Tracked(n, delta, actual_n, len) ==
  IF len > 0
  THEN IF delta > 0 THEN n + delta
       ELSE IF delta < 0 THEN n - actual_n ELSE n
  ELSE n

\* semaphore.rs:93-94 for one semaphore
AddPermits(avail, delta) == avail + delta

\* one iteration of the loop; ord is the order in which the HashMap is walked
ReleaseWatch(ord) ==
  /\ watch_task # "panicked"
  /\ LET delta == DeltaPermits
         released == SelectSeq(ord, LAMBDA p :
                        semaphores_map[p] = number_concurrent_requests)
         actual_n == ActualN(ord, delta)
         tracked == Tracked(number_concurrent_requests, delta, actual_n,
                            Len(ord))
         \* the usize arithmetic leaves 0..2^64-1
         crosses == (number_concurrent_requests >= 0) # (tracked >= 0)
     IN /\ Len(rx) + Len(released) <= MaxChan
        /\ rx' = rx \o [i \in 1..Len(released) |->
                          Msg("ReleasedPermit", released[i], 0, 0)]
        /\ rx_change_permits' =
             IF rx_change_permits = <<>> THEN <<>> ELSE Tail(rx_change_permits)
        /\ semaphores_map' =
             [p \in DOMAIN semaphores_map |->
                IF delta > 0 THEN AddPermits(semaphores_map[p], delta)
                ELSE semaphores_map[p] - Forgotten(p, delta)]
        /\ capacity' =
             [p \in DOMAIN capacity |->
                IF delta > 0 THEN capacity[p] + delta
                ELSE capacity[p] - Forgotten(p, delta)]
        /\ \/ /\ ~crosses
              /\ number_concurrent_requests' = tracked
              /\ UNCHANGED watch_task
           \/ /\ crosses
              /\ watch_task = "running"
              /\ watch_task' = "panicked"
              /\ UNCHANGED number_concurrent_requests
           \/ /\ crosses
              /\ watch_task' = "wrapped"
              /\ number_concurrent_requests' = tracked
  /\ last_decrease' =
       IF DeltaPermits < 0
       THEN [p \in DOMAIN semaphores_map |->
               [held |-> Held(p), available |-> semaphores_map[p]]]
       ELSE last_decrease
  /\ UNCHANGED <<senders_map, st, rport, arrival, changes>>
  /\ UNCHANGED <<workerVars, jobVars, routerVars, reloadVars,
                 dsVars, clusterVars>>

(***************************************************************************)
(* Initial state of the admission semaphore service                        *)
(***************************************************************************)
\* semaphore.rs:39-59,113: one semaphore per startup port, no waiters
SemInit ==
  /\ semaphores_map = [p \in InitPorts |-> max_concurrent_tile_requests]
  /\ number_concurrent_requests = max_concurrent_tile_requests
  /\ watch_task = "running"
  /\ rx = <<>>
  /\ rx_change_permits = <<>>
  /\ senders_map = <<>>
  /\ st = [r \in Reqs |-> "idle"]
  /\ rport = [r \in Reqs |-> 0]
  /\ capacity = [p \in InitPorts |-> max_concurrent_tile_requests]
  /\ arrival = <<>>
  /\ changes = 0
  /\ last_decrease = <<>>

(***************************************************************************)
(* Properties of the admission semaphore service                           *)
(***************************************************************************)
\* a permit was handed to request r
Delivered(r) == st[r] \in {"holding", "done"}

\* the GetPermit message of request r is still in the inbox
InInbox(r) == \E i \in DOMAIN rx : rx[i].type = "GetPermit" /\ rx[i].req = r

\* request r is or was queued as a waiter
WasQueued(r) == \E i \in DOMAIN arrival : arrival[i].req = r

\* total permits of port p: available ones plus the ones handlers own
Total(p) == semaphores_map[p] + Held(p)

\* the release-watch loop takes an Increase / a Decrease off its channel
AppliesChange(t) ==
  /\ rx_change_permits # <<>>
  /\ Head(rx_change_permits).type = t
  /\ rx_change_permits' = Tail(rx_change_permits)

\* C1 (admission bound): for every port that has a semaphore, the permits
\* handed out and not yet released never exceed the port's current capacity
\* (permits created, plus permits added, minus permits forgotten).
AdmissionBound ==
  \A p \in DOMAIN semaphores_map : Held(p) <= capacity[p]

\* C1 witness: a port whose capacity was raised by AddPermits and is fully
\* booked.
AdmissionBoundWitness ==
  \E p \in DOMAIN semaphores_map :
    /\ capacity[p] > max_concurrent_tile_requests
    /\ Held(p) = capacity[p]

\* C2 (FIFO waiter order), as claimed: of two waiters queued for the same port
\* while the port was fully booked, the later one is delivered a permit only
\* after the earlier one was delivered one (unless the earlier one went away
\* by itself).
FifoWaiterOrder ==
  \A i, j \in DOMAIN arrival :
    (/\ i < j
     /\ arrival[i].booked /\ arrival[j].booked
     /\ rport[arrival[i].req] = rport[arrival[j].req]
     /\ Delivered(arrival[j].req))
      => (Delivered(arrival[i].req) \/ st[arrival[i].req] = "gone")

\* C8 (every permit released exactly once): for every port the available
\* permits plus the permits owned by handlers equal the port's capacity.
PermitConservation ==
  \A p \in DOMAIN semaphores_map : Total(p) = capacity[p]

\* C8 witness: a handler that owned a permit has finished and every permit of
\* its port is available again, and a request that went away before the
\* service answered it was sent a permit that came back.
PermitConservationWitness ==
  /\ \E r \in Reqs :
       /\ st[r] = "done"
       /\ semaphores_map[rport[r]] = capacity[rport[r]]
       /\ capacity[rport[r]] > 0
  /\ \E r \in Reqs :
       /\ st[r] = "gone"
       /\ ~InInbox(r)
       /\ ~WasQueued(r)

\* C9 (AddPermits{n} is exact): the iteration of the release-watch loop that
\* applies Increase{n} raises the total of every semaphore and the tracked
\* number_concurrent_requests by exactly n.
AddPermitsExact ==
  [][AppliesChange("Increase") =>
       LET n == Head(rx_change_permits).n
       IN /\ \A p \in DOMAIN semaphores_map : Total(p)' = Total(p) + n
          /\ number_concurrent_requests' = number_concurrent_requests + n]_vars

\* C9 witness: an Increase has been applied while a permit was held.
AddPermitsExactWitness ==
  /\ number_concurrent_requests > max_concurrent_tile_requests
  /\ \E p \in DOMAIN semaphores_map : Held(p) > 0

\* C10 (ForgetPermits{n} takes only what is free), as claimed: the iteration
\* that applies Decrease{n} lowers the total of a port by at most n and by at
\* most its available permits, and lowers number_concurrent_requests by no
\* more than was forgotten on that port.
ForgetPermitsBounded ==
  [][AppliesChange("Decrease") =>
       LET n == Head(rx_change_permits).n
       IN \A p \in DOMAIN semaphores_map :
            /\ Total(p) - Total(p)' >= 0
            /\ Total(p) - Total(p)' <= n
            /\ Total(p) - Total(p)' <= semaphores_map[p]
            /\ number_concurrent_requests - number_concurrent_requests'
                 <= Total(p) - Total(p)']_vars

\* the release-watch loop applies Decrease{1} while three permits of port p
\* are held
DecreasesWhileThreeHeld(p) ==
  /\ AppliesChange("Decrease")
  /\ Head(rx_change_permits).n = 1
  /\ Held(p) = 3

\* the handler of request r gives its permit back
ReleasesPermit(r) == st[r] = "holding" /\ st'[r] = "done"

\* the waiter loop handles a GetPermit for a port that has a permit available
GetPermitWhileAvailable ==
  /\ rx # <<>>
  /\ rx' = Tail(rx)
  /\ Head(rx).type = "GetPermit"
  /\ Head(rx).port \in DOMAIN semaphores_map
  /\ semaphores_map[Head(rx).port] > 0

\* C24, as claimed: a Decrease{1} applied while three permits of a port are
\* held lowers the capacity of the port by one (to
\* max_concurrent_tile_requests - 1 when it was max_concurrent_tile_requests).
DecreaseWhileInUse ==
  [][\A p \in DOMAIN semaphores_map :
       DecreasesWhileThreeHeld(p) => capacity'[p] = capacity[p] - 1]_vars

\* C24, amended: a Decrease{1} applied while three permits of a port are held
\* and at least one more permit of it is available lowers the capacity of the
\* port by one and revokes no held permit; a later release of a held permit
\* queues no waiter and changes no capacity, and a GetPermit handled while a
\* permit is available is granted instead of queued.
DecreaseWithFreePermit ==
  /\ [][\A p \in DOMAIN semaphores_map :
          (DecreasesWhileThreeHeld(p) /\ semaphores_map[p] > 0) =>
            /\ capacity'[p] = capacity[p] - 1
            /\ Total(p)' = capacity'[p]
            /\ Held(p)' = 3]_vars
  /\ [][\A r \in Reqs :
          ReleasesPermit(r) =>
            /\ senders_map' = senders_map
            /\ capacity' = capacity
            /\ semaphores_map'[rport[r]] = semaphores_map[rport[r]] + 1]_vars
  /\ [][GetPermitWhileAvailable =>
          /\ senders_map' = senders_map
          /\ arrival' = arrival]_vars

\* a Decrease{1} was applied to a port with three permits held and one
\* available, two of the three have been released since, and no waiter is
\* queued for the port
DecreaseWithFreePermitWitness ==
  \E p \in DOMAIN last_decrease :
    /\ last_decrease[p].held = 3
    /\ last_decrease[p].available > 0
    /\ rx_change_permits = <<>>
    /\ Held(p) = 1
    /\ Cardinality({r \in Reqs : st[r] = "done" /\ rport[r] = p}) = 2
    /\ semaphores_map[p] = 2
    /\ capacity[p] = 3
    /\ p \in DOMAIN senders_map => senders_map[p] = <<>>

\* request r is being proxied to its worker, or was
Proxied(r) == st[r] \in {"holding", "refused", "done", "done_nopermit"}

\* C32, as claimed: the tile endpoint proxies a request to a worker only
\* while it holds a permit of that worker's port; a request to which no
\* permit was delivered is not proxied.
ProxiedOnlyWithPermit == \A r \in Reqs : Proxied(r) => Delivered(r)

\* request r is queued at port p and its handler still awaits the reply
QueuedWaiting(p, r) ==
  /\ p \in DOMAIN senders_map
  /\ \E i \in DOMAIN senders_map[p] : senders_map[p][i] = r
  /\ st[r] = "waiting"

\* C33, as claimed: handling ReleasedPermit{port} never discards a waiter: a
\* queued waiter whose requester is still waiting stays in the FIFO of the
\* port or is delivered a permit.
ReleasedPermitKeepsWaiters ==
  [][(WaiterLoop /\ Head(rx).type = "ReleasedPermit") =>
       \A r \in Reqs :
         QueuedWaiting(Head(rx).port, r) =>
           \/ \E i \in DOMAIN senders_map'[Head(rx).port] :
                senders_map'[Head(rx).port][i] = r
           \/ st'[r] = "holding"]_vars

\* C35, as claimed: a GetPermit{P} handled while earlier waiters are queued
\* for port P and still waiting is not granted a permit before them.
NoOvertaking ==
  [][(WaiterLoop /\ Head(rx).type = "GetPermit") =>
       ((\E w \in Reqs : QueuedWaiting(Head(rx).port, w)) =>
          st'[Head(rx).req] # "holding")]_vars

\* C36, as claimed: for every port that has a semaphore the available plus
\* the held permits equal the tracked number_concurrent_requests, so that
\* the idle test available = number_concurrent_requests is true exactly when
\* no permit of the port is in flight.
CapacityConsistency ==
  \A p \in DOMAIN semaphores_map :
    /\ Total(p) = number_concurrent_requests
    /\ semaphores_map[p] = number_concurrent_requests <=> Held(p) = 0

\* C34, as claimed: a waiter queued for a port whose requester keeps waiting
\* is eventually delivered a permit (when every held permit is released in
\* the end and both loops keep running).
WaiterLiveness ==
  \A p \in Ports, r \in Reqs :
    QueuedWaiting(p, r) ~> (Delivered(r) \/ st[r] = "gone")

(***************************************************************************)
(* Worker pool manager (tasks/workers.rs, workers_maintenance)             *)
(***************************************************************************)
Range(seq) == {seq[i] : i \in DOMAIN seq}

MinOf(S) == CHOOSE x \in S : \A y \in S : x <= y

\* a search that does not look at the excluded ports
GetAvailablePortNoExclude(bindable, exclude_ports) ==
  LET cand == {p \in PortRange : p \in bindable}
  IN IF cand = {} THEN 0 ELSE MinOf(cand)

\* utils.rs:151-168 get_available_port: the lowest port of the range that can
\* be bound (bindable: what the operating system answers at that moment) and
\* is not excluded; 0 stands for None
GetAvailablePort(bindable, exclude_ports) ==
  LET cand == {p \in PortRange : p \in bindable /\ p \notin Range(exclude_ports)}
  IN IF cand = {} THEN 0 ELSE MinOf(cand)

\* workers.rs:184-198 / 232-246 / serve.rs:64-76: `for _ in 0..count`, one
\* get_available_port per turn, push the port when there is one.
\* bindables[i] is the set of bindable ports at turn i.
RECURSIVE SpawnLoop(_, _, _)
SpawnLoop(cur, bindables, i) ==
  IF i > Len(bindables) THEN cur
  ELSE LET p == GetAvailablePort(bindables[i], cur)
       IN SpawnLoop(IF p = 0 THEN cur ELSE Append(cur, p), bindables, i + 1)

Bindables(count) == [1..count -> SUBSET PortRange]

\* an index that trusts the stored position
RoundRobinIndexNoWrap(ip, n) == ip

\* workers.rs:150-158: the index handed out ...
RoundRobinIndex(ip, n) == IF ip > n - 1 THEN 0 ELSE ip

\* ... and the counter left behind
RoundRobinWrapsToZero(ip, n) == IF ip > n - 1 THEN 0 ELSE ip + 1
RoundRobinNext(ip, n) == IF ip > n - 1 THEN 1 ELSE ip + 1

\* workers.rs:143-169 GetWorkerData (the None reply of an empty pool changes
\* nothing), as a part of the step of the handler that asks
WorkerData ==
  /\ manager_alive
  /\ Len(served) < MaxCalls
  /\ IF count_ports = 0
     THEN UNCHANGED <<index_port, served>>
     ELSE LET index == RoundRobinIndex(index_port, count_ports)
          IN /\ index_port' = RoundRobinNext(index_port, count_ports)
             /\ served' = Append(served, [index |-> index,
                                          port |-> ports[index + 1]])
  /\ killed_childs' = {}
  /\ spawned_ports' = {}
  /\ UNCHANGED <<ports, childs, clients, count_ports, manager_alive>>

\* GetWorkerData asked by a handler that does nothing else
GetWorkerData == WorkerData /\ UNCHANGED <<semVars, jobVars>>

\* workers.rs:183-205 AddWorkers{count}
AddWorkers(count, bindables) ==
  /\ manager_alive
  /\ ports' = SpawnLoop(ports, bindables, 1)
  /\ childs' = childs \cup Range(ports')
  /\ clients' = clients + (Len(ports') - Len(ports))
  /\ count_ports' = Len(ports')
  /\ served' = IF ports' = ports THEN served ELSE <<>>
  /\ killed_childs' = {}
  /\ spawned_ports' = {ports'[i] : i \in Len(ports) + 1..Len(ports')}
  /\ UNCHANGED <<index_port, manager_alive>>
  /\ UNCHANGED <<semVars, jobVars>>

\* workers.rs:206-211 / 263-267: kill_tree(child.id().unwrap()).await.unwrap()
\* for every child; the task panics at the first kill that fails
KillAll(kill_ok) == childs = {} \/ kill_ok

\* a reload that kills and replaces the workers of the startup only
ReloadWorkersKeepsAdded(kill_ok, bindables) ==
  LET kept == SubSeq(ports, processes_workers + 1, Len(ports))
  IN /\ manager_alive
     /\ ports' = SpawnLoop(kept, bindables, 1)
     /\ childs' = Range(ports')
     /\ clients' = Len(ports')
     /\ count_ports' = Len(ports')
     /\ served' = <<>>
     /\ killed_childs' = childs \ Range(kept)
     /\ spawned_ports' = Range(ports') \ Range(kept)
     /\ UNCHANGED <<index_port, manager_alive>>
     /\ UNCHANGED <<semVars, jobVars>>

\* workers.rs:206-261 ReloadWorkers
ReloadWorkers(kill_ok, bindables) ==
  /\ manager_alive
  /\ IF KillAll(kill_ok)
     THEN /\ ports' = SpawnLoop(<<>>, bindables, 1)
          /\ childs' = Range(ports')
          /\ clients' = Len(ports')
          /\ count_ports' = Len(ports')
          /\ served' = <<>>
          /\ killed_childs' = childs
          /\ spawned_ports' = Range(ports')
          /\ UNCHANGED manager_alive
     ELSE /\ manager_alive' = FALSE
          /\ UNCHANGED <<ports, childs, clients, count_ports, served,
                         killed_childs, spawned_ports>>
  /\ UNCHANGED index_port
  /\ UNCHANGED <<semVars, jobVars>>

\* workers.rs:262-279 TerminateWorkers
TerminateWorkers(kill_ok) ==
  /\ manager_alive
  /\ IF KillAll(kill_ok)
     THEN /\ ports' = <<>>
          /\ childs' = {}
          /\ clients' = 0
          /\ count_ports' = 0
          /\ served' = <<>>
          /\ killed_childs' = childs
          /\ spawned_ports' = {}
          /\ UNCHANGED manager_alive
     ELSE /\ manager_alive' = FALSE
          /\ UNCHANGED <<ports, childs, clients, count_ports, served,
                         killed_childs, spawned_ports>>
  /\ UNCHANGED index_port
  /\ UNCHANGED <<semVars, jobVars>>

\* serve.rs:59-104 and workers.rs:136-139: the pool at startup (an empty pool
\* ends the program before the manager starts)
WorkerInit ==
  /\ \E bindables \in Bindables(processes_workers) :
       ports = SpawnLoop(<<>>, bindables, 1)
  /\ ports # <<>>
  /\ childs = Range(ports)
  /\ clients = Len(ports)
  /\ index_port = 0
  /\ count_ports = Len(ports)
  /\ manager_alive = TRUE
  /\ served = <<>>
  /\ killed_childs = {}
  /\ spawned_ports = {}

(***************************************************************************)
(* Properties of the worker pool manager                                   *)
(***************************************************************************)
\* how often port p was handed out since the pool last changed
TimesServed(p) == Cardinality({i \in DOMAIN served : served[i].port = p})

\* C3 (round-robin fairness): between two changes of the pool of N workers,
\* every GetWorkerData reply is one position after the reply before it,
\* modulo N, and after K replies every port was handed out floor(K/N) or
\* ceil(K/N) times.
RoundRobinFair ==
  LET K == Len(served)
      N == count_ports
  IN /\ \A i \in DOMAIN served :
          /\ served[i].index < N
          /\ served[i].port = ports[served[i].index + 1]
          /\ i > 1 => served[i].index = (served[i - 1].index + 1) % N
     /\ \A p \in Range(ports) :
          /\ TimesServed(p) >= K \div N
          /\ TimesServed(p) <= (K + N - 1) \div N

\* C3 witness: a pool of at least two workers has been walked more than once
\* round, after the pool had changed with the counter past its start.
RoundRobinFairWitness ==
  /\ count_ports >= 2
  /\ Len(served) > count_ports
  /\ served[1].index # 0

\* C37 (consistent WorkerData): every Some(WorkerData) reply given since the
\* pool last changed has index < ports.len() and port = ports[index], where
\* ports is the manager's list and a client is stored at that index; and the
\* index that the next reply will use is in range as well, also when the
\* pool shrank below the stored round-robin position.
WorkerDataConsistent ==
  /\ count_ports = Len(ports)
  /\ clients = Len(ports)
  /\ \A i \in DOMAIN served :
       /\ served[i].index < Len(ports)
       /\ served[i].index < clients
       /\ served[i].port = ports[served[i].index + 1]
  /\ count_ports > 0 =>
       /\ RoundRobinIndex(index_port, count_ports) < Len(ports)
       /\ RoundRobinIndex(index_port, count_ports) < clients

\* C37 witness: a reload has just shrunk the pool below the stored
\* round-robin position.
WorkerDataConsistentWitness ==
  /\ manager_alive
  /\ count_ports > 0
  /\ index_port > count_ports
  /\ killed_childs # {}
  /\ Cardinality(killed_childs) > Len(ports)

\* the ports that are free while a spawn loop runs: outside the pool and
\* bindable at every turn
FreePorts(bindables) ==
  {p \in PortRange \ Range(ports) :
     \A i \in DOMAIN bindables : p \in bindables[i]}

Distinct(seq) == \A i, j \in DOMAIN seq : i # j => seq[i] # seq[j]

\* ports, clients and child handles correspond one to one
PoolInStep(p, ch, cl) ==
  /\ Distinct(p)
  /\ Range(p) \subseteq PortRange
  /\ ch = Range(p)
  /\ cl = Len(p)

\* C25: a kill that fails during ReloadWorkers does not stop the reload: the
\* fresh workers are spawned and the manager keeps serving GetWorkerData and
\* the maintenance messages.
KillIsBestEffort ==
  [][\A kill_ok \in BOOLEAN, bindables \in Bindables(processes_workers) :
       ReloadWorkers(kill_ok, bindables) =>
         /\ manager_alive'
         /\ ports' = SpawnLoop(<<>>, bindables, 1)]_vars

\* C27: AddWorkers{count} with at least count free ports appends exactly
\* count new ports after the existing ones; the ports of the pool stay
\* pairwise distinct and inside the range, the existing entries keep their
\* position, and ports, clients and child handles correspond one to one.
AddWorkersAppends ==
  [][\A count \in 1..MaxAddWorkers : \A bindables \in Bindables(count) :
       (AddWorkers(count, bindables)
        /\ Cardinality(FreePorts(bindables)) >= count) =>
         /\ Len(ports') = Len(ports) + count
         /\ SubSeq(ports', 1, Len(ports)) = ports
         /\ Cardinality(spawned_ports') = count
         /\ spawned_ports' \cap Range(ports) = {}
         /\ count_ports' = Len(ports')
         /\ PoolInStep(ports', childs', clients')]_vars

\* AddWorkers{MaxAddWorkers} has appended its ports to a pool
AddWorkersAppendsWitness ==
  /\ killed_childs = {}
  /\ Cardinality(spawned_ports) = MaxAddWorkers
  /\ Len(ports) > Cardinality(spawned_ports)
  /\ PoolInStep(ports, childs, clients)

\* C28: when ReloadWorkers completes, every child of the previous pool has
\* been killed and the pool is made of the workers the reload spawned,
\* processes_workers of them when that many ports are free, whatever the
\* pool was before; a GetWorkerData that is answered after it gets a port
\* of the new pool.
ReloadReplacesPool ==
  /\ [][\A kill_ok \in BOOLEAN, bindables \in Bindables(processes_workers) :
          (ReloadWorkers(kill_ok, bindables) /\ manager_alive') =>
            /\ killed_childs' = childs
            /\ spawned_ports' = Range(ports')
            /\ PoolInStep(ports', childs', clients')
            /\ count_ports' = Len(ports')
            /\ served' = <<>>
            /\ Cardinality({p \in PortRange :
                  \A i \in DOMAIN bindables : p \in bindables[i]})
                  >= processes_workers
                => Len(ports') = processes_workers]_vars
  /\ [](\A i \in DOMAIN served : served[i].port \in Range(ports))

\* a reload has replaced a pool that AddWorkers had made larger than
\* processes_workers
ReloadReplacesPoolWitness ==
  /\ Cardinality(killed_childs) > processes_workers
  /\ spawned_ports = Range(ports)
  /\ Len(ports) = processes_workers

(***************************************************************************)
(* Job queue (db/job/postgres.rs, PostgresQueue)                           *)
(*                                                                         *)
(* A row is [status, scheduled_for, failed_attempts, jt].  push, delete_job *)
(* and fail_job are one statement in one transaction each and are one step. *)
(* pull is two steps, the statement and the commit, so that the pulls of    *)
(* two nodes overlap: between them the selected rows are locked and their   *)
(* new status is not visible to other transactions.                         *)
(***************************************************************************)
\* postgres.rs:185 the WHERE clause of pull's sub-select
PullWhereAnyStatus(row, t) ==
  /\ row.scheduled_for <= t
  /\ row.failed_attempts < MAX_FAILED_ATTEMPTS
PullWhereAttemptsLe(row, t) ==
  /\ row.status = "Queued"
  /\ row.scheduled_for <= t
  /\ row.failed_attempts <= MAX_FAILED_ATTEMPTS
PullWhere(row, t) ==
  /\ row.status = "Queued"
  /\ row.scheduled_for <= t
  /\ row.failed_attempts < MAX_FAILED_ATTEMPTS

\* postgres.rs:183-188: the sets of rows the sub-select may lock: matching
\* rows that no other transaction has locked (SKIP LOCKED), the nj first ones
\* by scheduled_for, ties in any order
PullSelections(nj) ==
  LET cand == {j \in DOMAIN queue : PullWhere(queue[j], now) /\ row_lock[j] = 0}
      k == Min(nj, Cardinality(cand))
  IN {b \in SUBSET cand :
        /\ Cardinality(b) = k
        /\ \A x \in b, y \in cand \ b :
             queue[x].scheduled_for <= queue[y].scheduled_for}

\* postgres.rs:85-123 push: a fresh row, Queued, no failed attempt
PushedRowUnscheduled(jt, scheduled_for) ==
  [status |-> "Queued", scheduled_for |-> 0,
   failed_attempts |-> 0, jt |-> jt]
PushedRow(jt, scheduled_for) ==
  [status |-> "Queued", scheduled_for |-> scheduled_for,
   failed_attempts |-> 0, jt |-> jt]

\* postgres.rs:125-145 delete_job
DeleteJob(q, job_id) == [j \in DOMAIN q \ {job_id} |-> q[j]]

\* a fail_job that binds PostgresJobStatus::Failed
FailJobMarksFailed(q, job_id) ==
  [j \in DOMAIN q |->
     IF j = job_id
     THEN [q[j] EXCEPT !.status = "Failed",
                       !.failed_attempts = @ + 1]
     ELSE q[j]]

\* postgres.rs:147-172 fail_job
FailJob(q, job_id) ==
  [j \in DOMAIN q |->
     IF j = job_id
     THEN [q[j] EXCEPT !.status = "Queued",
                       !.failed_attempts = @ + 1]
     ELSE q[j]]

(***************************************************************************)
(* Job runner (tasks/job.rs)                                               *)
(***************************************************************************)
\* pyramid.rs:37-59 with job.rs:53-66 job_add_to_queue: the pyramid endpoint
\* is the one producer of jobs; it sends a Pyramid job with the date of the
\* request body, and job_add_to_queue pushes it.  Job ids are fresh (Ulid,
\* postgres.rs:91): DOMAIN row_lock holds every id used so far.
Push(date) ==
  LET job_id == Cardinality(DOMAIN row_lock) + 1
  IN /\ job_id \in JobIds
     /\ queue' = [j \in DOMAIN queue \cup {job_id} |->
                    IF j = job_id THEN PushedRow("Pyramid", date)
                    ELSE queue[j]]
     /\ row_lock' = [j \in DOMAIN row_lock \cup {job_id} |->
                       IF j = job_id THEN 0 ELSE row_lock[j]]
     /\ dispatched' = [j \in DOMAIN dispatched \cup {job_id} |->
                         IF j = job_id THEN 0 ELSE dispatched[j]]
     /\ UNCHANGED <<now, pc, jobs, response>>

JobAddToQueue(date) ==
  /\ Push(date)
  /\ UNCHANGED <<semVars, workerVars, routerVars, reloadVars,
                 dsVars, clusterVars>>

\* job.rs:80 with postgres.rs:174-201: pull begins its transaction and runs the
\* UPDATE .. RETURNING; order is the order in which the rows are returned
PullStatement(r, order) ==
  /\ pc[r] = "sleep"
  /\ Range(order) \in PullSelections(JOB_CONCURRENCY)
  /\ row_lock' = [j \in DOMAIN row_lock |->
                    IF j \in Range(order) THEN r ELSE row_lock[j]]
  /\ jobs' = [jobs EXCEPT ![r] = order]
  /\ pc' = [pc EXCEPT ![r] = "pull_tx"]
  /\ UNCHANGED <<queue, now, response, dispatched>>
  /\ UNCHANGED <<semVars, workerVars, routerVars, reloadVars,
                 dsVars, clusterVars>>

\* postgres.rs:207-213: commit, the rows are Running and returned
PullCommit(r) ==
  /\ pc[r] = "pull_tx"
  /\ queue' = [j \in DOMAIN queue |->
                 IF row_lock[j] = r THEN [queue[j] EXCEPT !.status = "Running"]
                 ELSE queue[j]]
  /\ row_lock' = [j \in DOMAIN row_lock |->
                    IF row_lock[j] = r THEN 0 ELSE row_lock[j]]
  /\ pc' = [pc EXCEPT ![r] = "pulled"]
  /\ UNCHANGED <<now, jobs, response, dispatched>>
  /\ UNCHANGED <<semVars, workerVars, routerVars, reloadVars,
                 dsVars, clusterVars>>

\* postgres.rs:203-206 and job.rs:82-86: the statement or the commit fails,
\* nothing is changed and the runner goes on with an empty Vec
PullRollback(r) ==
  /\ pc[r] = "pull_tx"
  /\ row_lock' = [j \in DOMAIN row_lock |->
                    IF row_lock[j] = r THEN 0 ELSE row_lock[j]]
  /\ jobs' = [jobs EXCEPT ![r] = <<>>]
  /\ pc' = [pc EXCEPT ![r] = "pulled"]
  /\ UNCHANGED <<queue, now, response, dispatched>>
  /\ UNCHANGED <<semVars, workerVars, routerVars, reloadVars,
                 dsVars, clusterVars>>

\* job.rs:89-95: does the runner act on jobs[0] of the batch it pulled?  wd is
\* the reply of the pool manager to GetWorkerData: FALSE when the pool is
\* empty (workers.rs:144-147), and then the loop continues (job.rs:93).
ActsOnBatch(batch, wd) == Len(batch) = JOB_CONCURRENCY /\ wd

\* job.rs:89-140: the part of an iteration after the pull.  A Pyramid job is
\* dispatched, a Calculation job is left alone (job.rs:137); the Vec is
\* dropped when the iteration ends.
AfterPull(r, wd) ==
  /\ pc[r] = "pulled"
  /\ IF ActsOnBatch(jobs[r], wd) /\ queue[jobs[r][1]].jt = "Pyramid"
     THEN /\ pc' = [pc EXCEPT ![r] = "dispatch"]
          /\ jobs' = jobs
     ELSE /\ pc' = [pc EXCEPT ![r] = "sleep"]
          /\ jobs' = [jobs EXCEPT ![r] = <<>>]
  /\ UNCHANGED <<queue, row_lock, now, response, dispatched>>
  /\ UNCHANGED <<semVars, workerVars, routerVars, reloadVars,
                 dsVars, clusterVars>>

\* job.rs:207-217, 289-299: the dispatch ended in Err(e), without a response
transport_error == 0

\* job.rs:145-300 job_pyramid up to the answer of the peer (remote datasource,
\* helpers.rs:35-75 worker_response) or of the local worker ports[0]
\* (hyper_reverse_proxy::call).  worker_response turns a timeout or a
\* transport error into a 503 response.
Dispatch(r, remote, outcome) ==
  /\ pc[r] = "dispatch"
  /\ pc' = [pc EXCEPT ![r] = "result"]
  /\ response' = [response EXCEPT ![r] =
                    IF remote /\ outcome = transport_error THEN 503
                    ELSE outcome]
  /\ dispatched' = [dispatched EXCEPT ![jobs[r][1]] = @ + 1]
  /\ UNCHANGED <<queue, row_lock, now, jobs>>
  /\ UNCHANGED <<semVars, workerVars, routerVars, reloadVars,
                 dsVars, clusterVars>>

\* job.rs:310-311: ((status as f32 / 100.0) as f32).round(), which rounds
\* half away from zero
StatusCode(status) == (status + 50) \div 100

\* job.rs:312 and 200-217, 282-299: the outcomes that fail the job
FailsJob(outcome) ==
  \/ outcome = transport_error
  \/ StatusCode(outcome) \in {4, 5, 6}

\* job.rs:197-218, 279-300 with job_processing_result (305-345): fail_job or
\* delete_job for jobs[0]; then the iteration ends
ProcessResult(r) ==
  /\ pc[r] = "result"
  /\ row_lock[jobs[r][1]] = 0
  /\ queue' = IF FailsJob(response[r])
              THEN FailJob(queue, jobs[r][1])
              ELSE DeleteJob(queue, jobs[r][1])
  /\ pc' = [pc EXCEPT ![r] = "sleep"]
  /\ jobs' = [jobs EXCEPT ![r] = <<>>]
  /\ response' = [response EXCEPT ![r] = 0]
  /\ dispatched' = [j \in DOMAIN queue' |-> dispatched[j]]
  /\ UNCHANGED <<row_lock, now>>
  /\ UNCHANGED <<semVars, workerVars, routerVars, reloadVars,
                 dsVars, clusterVars>>

\* time passes
ClockTick ==
  /\ now < MaxTime
  /\ now' = now + 1
  /\ UNCHANGED <<queue, row_lock, pc, jobs, response, dispatched>>
  /\ UNCHANGED <<semVars, workerVars, routerVars, reloadVars,
                 dsVars, clusterVars>>

\* an empty table, every runner about to pull
JobInit ==
  /\ queue = <<>>
  /\ row_lock = <<>>
  /\ now = 0
  /\ pc = [r \in Runners |-> "sleep"]
  /\ jobs = [r \in Runners |-> <<>>]
  /\ response = [r \in Runners |-> 0]
  /\ dispatched = <<>>

\* one step of runner r
RunnerStep(r) ==
  \/ \E b \in PullSelections(JOB_CONCURRENCY) :
       \E order \in Perms(b) : PullStatement(r, order)
  \/ PullCommit(r)
  \/ PullRollback(r)
  \/ \E wd \in BOOLEAN : AfterPull(r, wd)
  \/ \E remote \in BOOLEAN, outcome \in Statuses \cup {transport_error} :
       Dispatch(r, remote, outcome)
  \/ ProcessResult(r)

JobNext ==
  \/ \E date \in 0..MaxTime : JobAddToQueue(date)
  \/ \E r \in Runners : RunnerStep(r)
  \/ ClockTick

(***************************************************************************)
(* Job queue properties                                                    *)
(***************************************************************************)
\* the jobs a pull has handed, or is about to hand, to runner r
Batch(r) == Range(jobs[r])
Returned(r) == pc[r] \in {"pulled", "dispatch", "result"}

\* C4: two pulls, overlapping or not, never hold the same job; the rows a pull
\* has selected stay Queued for everybody else until its commit, and from the
\* commit on every job of the batch it returns is Running.
PullDisjoint ==
  /\ \A r1, r2 \in Runners : r1 # r2 => Batch(r1) \cap Batch(r2) = {}
  /\ \A r \in Runners : \A j \in Batch(r) :
       /\ j \in DOMAIN queue
       /\ pc[r] = "pull_tx" => queue[j].status = "Queued" /\ row_lock[j] = r
       /\ Returned(r) => queue[j].status = "Running" /\ row_lock[j] = 0
PullDisjointWitness ==
  /\ pc[1] = "pulled" /\ jobs[1] # <<>>
  /\ pc[2] = "pull_tx" /\ jobs[2] # <<>>
  /\ \E j \in DOMAIN queue : queue[j].status = "Queued" /\ row_lock[j] = 0

\* C5: a job enters the batch of a pull only if, at that moment, it is Queued,
\* its scheduled_for is not later than now and it has failed fewer than three
\* times.
PulledOnlyIfEligible ==
  [][\A r \in Runners : \A j \in Range(jobs'[r]) \ Range(jobs[r]) :
       /\ j \in DOMAIN queue
       /\ queue[j].status = "Queued"
       /\ queue[j].scheduled_for <= now
       /\ queue[j].failed_attempts < 3]_vars
\* a job has failed three times and is due, and every runner has pulled since
PulledOnlyIfEligibleWitness ==
  /\ \E j \in DOMAIN queue :
       /\ queue[j].failed_attempts = 3
       /\ queue[j].status = "Queued"
       /\ queue[j].scheduled_for <= now
  /\ \A r \in Runners : pc[r] = "pulled"

\* C6: every job that a pull has moved to Running is eventually deleted or
\* back in Queued.
EveryRunningJobCompletes ==
  \A j \in JobIds :
    (j \in DOMAIN queue /\ queue[j].status = "Running")
      ~> (j \notin DOMAIN queue \/ queue[j].status = "Queued")

\* C7: when the handling of a dispatch ends, a response that is neither 2xx
\* nor 3xx, or no response at all, has added one to the job's failed_attempts
\* and made it Queued; any other response has deleted the job's row; and no
\* other row has changed.
DispatchOutcomeApplied ==
  [][\A r \in Runners :
       pc[r] = "result" /\ pc'[r] # "result" =>
         LET j == jobs[r][1]
         IN /\ IF \/ response[r] = transport_error
                  \/ response[r] \div 100 \notin {2, 3}
               THEN /\ j \in DOMAIN queue'
                    /\ queue'[j].status = "Queued"
                    /\ queue'[j].failed_attempts = queue[j].failed_attempts + 1
               ELSE j \notin DOMAIN queue'
            /\ \A k \in DOMAIN queue \ {j} :
                 k \in DOMAIN queue' /\ queue'[k] = queue[k]]_vars

\* C26: the runner classifies the response to a dispatch by the first digit
\* of its HTTP status: the job is failed if and only if that digit is 4, 5
\* or 6 and deleted otherwise, for every status.
ClassifiedByFirstDigit ==
  [][\A r \in Runners :
       (/\ pc[r] = "result"
        /\ pc'[r] # "result"
        /\ response[r] # transport_error) =>
         LET j == jobs[r][1]
         IN IF response[r] \div 100 \in {4, 5, 6}
            THEN /\ j \in DOMAIN queue'
                 /\ queue'[j].failed_attempts = queue[j].failed_attempts + 1
            ELSE j \notin DOMAIN queue']_vars

\* the rows that have no attempt left
Exhausted(q) ==
  {j \in DOMAIN q : q[j].failed_attempts >= MAX_FAILED_ATTEMPTS}

\* C40: no row ever has the status Failed; a job whose failed_attempts has
\* reached 3 is Queued, and from then on its row stays in the queue as it
\* is, no pull selects it and no runner holds it; every job is dispatched
\* at most 3 times.
FailedNeverAssigned ==
  /\ [](\A j \in DOMAIN queue :
          /\ queue[j].status \in {"Queued", "Running"}
          /\ dispatched[j] <= MAX_FAILED_ATTEMPTS
          /\ j \in Exhausted(queue) => queue[j].status = "Queued")
  /\ [][\A j \in Exhausted(queue) :
          /\ j \in DOMAIN queue'
          /\ queue'[j] = queue[j]
          /\ row_lock'[j] = 0
          /\ \A r \in Runners : j \notin Range(jobs'[r])]_vars

\* a job was dispatched 3 times and failed 3 times, it is due, and a runner
\* has pulled and got nothing
FailedNeverAssignedWitness ==
  \E j \in Exhausted(queue), r \in Runners :
    /\ dispatched[j] = MAX_FAILED_ATTEMPTS
    /\ queue[j].scheduled_for <= now
    /\ pc[r] = "pulled"
    /\ jobs[r] = <<>>
    /\ \A o \in Runners \ {r} : pc[o] = "sleep"

(***************************************************************************)
(* Request router (handles/mod.rs, handle) and its endpoints               *)
(***************************************************************************)
\* Option<T>: the set of at most one value
None == {}
Some(x) == {x}

\* the "host:port" addresses of the servers of the cluster
Addrs == 1..NumAddrs

\* DataSourceInfo as GetDataSource returns it (datasources.rs:166-189); addr
\* is None when host or port is missing
DataSourceInfos ==
  [addr : {None} \cup {Some(a) : a \in Addrs},
   use_cache_only : {None, Some(FALSE), Some(TRUE)}]

DataSourceReplies == {None} \cup {Some(ds) : ds \in DataSourceInfos}

\* what a request brings with it and what the outside answers while it is
\* handled:
\*   body    the JSON body: well formed, with "scheduled_for" (an RFC 3339
\*           string, a string that is no date, a value that is no string),
\*           not JSON, or without its required field
\*   scheduled_for  the date of "scheduled_for"
\*   push    whether the INSERT of PostgresQueue::push succeeds
\*   uri_ok  the tile path parses (tile.rs:35-100)
\*   ds      the reply of GetDataSource
\*   disk    the tile file: present, present with length 0, absent
\*   cache   the cache DB: tile found, not found, file absent with the
\*           dataset directory present, file absent and created now, file
\*           absent and the datasource unknown to Postgres
\*   worker_outcome  status of the local worker's response, or the proxy
\*           call's error
\*   peer_status     status worker_response gives for the peer
ScheduledBodies == {"scheduled", "scheduled_bad_date", "scheduled_not_string"}
Bodies == {"ok", "bad_json", "no_field"} \cup ScheduledBodies
DiskLookups == {"hit", "empty", "miss"}
CacheLookups == {"hit", "miss", "absent", "init", "not_found"}
WorkerOutcomes == {transport_error, 200, 404}
PeerStatuses == {200, 503}

NoInput ==
  [body |-> "ok", uri_ok |-> TRUE, ds |-> None, disk |-> "miss",
   cache |-> "miss", worker_outcome |-> 200, peer_status |-> 200,
   scheduled_for |-> 0, push |-> "ok"]

\* every input a request may meet
Inputs ==
  [body : Bodies, uri_ok : BOOLEAN, ds : DataSourceReplies,
   disk : DiskLookups, cache : CacheLookups,
   worker_outcome : WorkerOutcomes, peer_status : PeerStatuses,
   scheduled_for : 0..MaxTime, push : {"ok", "err"}]

\* what the handler did: the response's status (0: the handler panicked, no
\* response), the function that built the response, the messages sent to
\* the services, the local worker ports and the peers an HTTP request went
\* to, and the inputs the handler read on its way
Did(status, by, sent, worker, peer, asked) ==
  [status |-> status, by |-> by, sent |-> sent, worker |-> worker,
   peer |-> peer, asked |-> asked]

\* helpers.rs:17-25 error_response_endpoint
ErrorResponseEndpoint(endpoint, sent, asked) ==
  Did(500, endpoint, sent, {}, {}, asked)

\* hyper_reverse_proxy::call to a local worker and the two arms that follow
\* it (tile.rs:162-184, pyramid.rs:113-127, mod.rs:215-231)
ProxyStatus(worker_outcome) ==
  IF worker_outcome = transport_error THEN 500 ELSE worker_outcome

\* a master that does not compare the datasource's address with its own
MasterLookupNoSelfCheck(cfg, in) ==
  IF in.ds = None
  THEN [response |-> Some(404), sent |-> {"GetDataSource"}, peer |-> {},
        asked |-> {"ds"}]
  ELSE LET ds == CHOOSE d \in in.ds : TRUE
       IN IF ds.addr = None
          THEN [response |-> None, sent |-> {"GetDataSource"}, peer |-> {},
                asked |-> {"ds"}]
          ELSE [response |-> Some(in.peer_status),
                sent |-> {"GetDataSource"}, peer |-> ds.addr,
                asked |-> {"ds", "peer_status"}]

\* a master that looks the datasource up and serves it itself
MasterLookupStaysLocal(cfg, in) ==
  [response |-> IF in.ds = None THEN Some(404) ELSE None,
   sent |-> {"GetDataSource"}, peer |-> {}, asked |-> {"ds"}]

\* master.rs:27-69 and 82-119: the datasource is looked up and the request
\* goes to its server unless that is this one; response None: go on locally
MasterLookup(cfg, in) ==
  IF in.ds = None
  THEN [response |-> Some(404), sent |-> {"GetDataSource"}, peer |-> {},
        asked |-> {"ds"}]
  ELSE LET ds == CHOOSE d \in in.ds : TRUE
       IN IF ds.addr = None \/ ds.addr = cfg.address
          THEN [response |-> None, sent |-> {"GetDataSource"}, peer |-> {},
                asked |-> {"ds"}]
          ELSE [response |-> Some(in.peer_status),
                sent |-> {"GetDataSource"}, peer |-> ds.addr,
                asked |-> {"ds", "peer_status"}]

\* master.rs:12-123 master_endpoint
MasterEndpoint(cfg, kind, in) ==
  IF kind = "tile" THEN MasterLookup(cfg, in)
  ELSE IF kind = "pyramid"
  THEN IF in.body \in {"bad_json", "no_field"}
       THEN [response |-> Some(500), sent |-> {}, peer |-> {},
             asked |-> {"body"}]
       ELSE IF in.body \in ScheduledBodies
       THEN [response |-> None, sent |-> {}, peer |-> {},
             asked |-> {"body"}]
       ELSE LET l == MasterLookup(cfg, in)
            IN [l EXCEPT !.asked = @ \cup {"body"}]
  ELSE [response |-> None, sent |-> {}, peer |-> {}, asked |-> {}]

\* utils.rs:364-384 get_tile_from_disk
GetTileFromDisk(disk) ==
  IF disk = "hit" THEN Some(200) ELSE IF disk = "empty" THEN Some(400) ELSE None

\* tile.rs:107-129: db/mod.rs:204-255 get_mbtile when the cache DB file
\* exists, utils.rs:213-262 try_init_mbtiles when it does not
CacheResponse(cache) ==
  IF cache = "hit" THEN Some(200)
  ELSE IF cache = "not_found" THEN Some(404) ELSE None

CacheMessages(cache) ==
  IF cache \in {"hit", "miss"} THEN {"GetSQLiteClient"}
  ELSE IF cache = "init" THEN {"AddSQLiteClient"} ELSE {}

\* a tile endpoint that does not look at the datasource's flag
UseCacheOnlyIgnored(ds_reply) == FALSE

\* tile.rs:138-141
UseCacheOnly(ds_reply) ==
  IF ds_reply = None THEN FALSE
  ELSE LET ds == CHOOSE d \in ds_reply : TRUE
       IN IF ds.use_cache_only = None THEN FALSE
          ELSE CHOOSE b \in ds.use_cache_only : TRUE

\* tile.rs:23-185 tile_endpoint
TileEndpoint(port, in) ==
  IF ~in.uri_ok THEN Did(400, "tile_endpoint", {}, {}, {}, {"uri_ok"})
  ELSE IF GetTileFromDisk(in.disk) # None
  THEN Did(CHOOSE s \in GetTileFromDisk(in.disk) : TRUE, "tile_endpoint",
           {}, {}, {}, {"uri_ok", "disk"})
  ELSE IF CacheResponse(in.cache) # None
  THEN Did(CHOOSE s \in CacheResponse(in.cache) : TRUE, "tile_endpoint",
           CacheMessages(in.cache), {}, {}, {"uri_ok", "disk", "cache"})
  ELSE IF UseCacheOnly(in.ds)
  THEN Did(204, "tile_endpoint",
           CacheMessages(in.cache) \cup {"GetDataSource"}, {}, {},
           {"uri_ok", "disk", "cache", "ds"})
  ELSE Did(ProxyStatus(in.worker_outcome), "tile_endpoint",
           CacheMessages(in.cache) \cup {"GetDataSource", "GetPermit"},
           {port}, {},
           {"uri_ok", "disk", "cache", "ds", "worker_outcome"})

\* utils.rs:213-262 try_init_mbtiles as the pyramid endpoint calls it (no
\* sender for the registry): the one response it can give is the 404 of a
\* datasource unknown to Postgres
TryInitMbtilesResponse(cache) ==
  IF cache = "not_found" THEN Some(404) ELSE None

\* a pyramid endpoint that proxies to the worker picked by the round robin
PyramidPortRoundRobin(wd) == wd.port

\* mod.rs:147-155: the pyramid endpoint is called with ports[0]
PyramidPort(wd) == wd.ports[1]

\* pyramid.rs:20-128 pyramid_endpoint; opt_tx_jd: the sender of the job
\* channel is there, which it is on a master only (serve.rs:124-139); cache
\* is what try_init_mbtiles finds after the cache DB was removed
PyramidEndpoint(opt_tx_jd, port, in) ==
  IF in.body = "bad_json"
  THEN ErrorResponseEndpoint("pyramid_endpoint", {}, {"body"})
  ELSE IF in.body = "no_field"
  THEN Did(0, "pyramid_endpoint", {}, {}, {}, {"body"})
  ELSE IF opt_tx_jd /\ in.body = "scheduled_bad_date"
  THEN ErrorResponseEndpoint("pyramid_endpoint", {}, {"body"})
  ELSE IF opt_tx_jd /\ in.body = "scheduled"
  THEN Did(202, "pyramid_endpoint", {"JobDetail"}, {}, {},
           {"body", "scheduled_for", "push"})
  ELSE IF TryInitMbtilesResponse(in.cache) # None
  THEN Did(CHOOSE s \in TryInitMbtilesResponse(in.cache) : TRUE,
           "pyramid_endpoint", {"RemoveSQLiteClient"}, {}, {},
           {"body", "cache"})
  ELSE Did(ProxyStatus(in.worker_outcome), "pyramid_endpoint",
           {"RemoveSQLiteClient"}, {port}, {},
           {"body", "cache", "worker_outcome"})

\* mod.rs:80-231: the request after get_worker_data answered wd
Endpoints(cfg, kind, wd, in) ==
  LET m == IF cfg.master THEN MasterEndpoint(cfg, kind, in)
           ELSE [response |-> None, sent |-> {}, peer |-> {}, asked |-> {}]
      after == IF kind = "tile" THEN TileEndpoint(wd.port, in)
               ELSE IF kind = "pyramid"
               THEN PyramidEndpoint(cfg.master, PyramidPort(wd), in)
               ELSE Did(ProxyStatus(in.worker_outcome), "handle", {},
                        {wd.port}, {}, {"worker_outcome"})
  IN IF m.response # None
     THEN Did(CHOOSE s \in m.response : TRUE, "master_endpoint",
              {"GetWorkerData"} \cup m.sent, {}, m.peer, m.asked)
     ELSE [after EXCEPT !.sent = {"GetWorkerData"} \cup m.sent \cup @,
                        !.asked = m.asked \cup @]

\* the inputs as the handler saw them: what it did not read is not there
Read(in, asked) ==
  [f \in DOMAIN in |-> IF f \in asked THEN in[f] ELSE NoInput[f]]

\* the configurations: this server is number 1 of the cluster
Configs == [master : BOOLEAN, address : {None, Some(1)}]

\* the inputs some configuration reads in full
InputsOf(kind) ==
  LET wd == [index |-> 0, port |-> 1, ports |-> <<1>>]
  IN {in \in Inputs :
        \E cfg \in Configs : in = Read(in, Endpoints(cfg, kind, wd, in).asked)}

TileInputs == InputsOf("tile")
PyramidInputs == InputsOf("pyramid")
OtherInputs == InputsOf("other")

\* the record left in `handled`
Handled(kind, in, did) ==
  [kind |-> kind, in |-> Read(in, did.asked), did |-> did]

MaintenanceKinds ==
  {"add_workers", "reload_workers", "terminate_workers", "info_workers",
   "increase_limit_cr", "decrease_limit_cr"}

\* the message of each maintenance request (maintenance.rs:25,35,45,56,88,108)
MaintenanceMessage(kind) ==
  CASE kind = "add_workers" -> "AddWorkers"
    [] kind = "reload_workers" -> "ReloadWorkers"
    [] kind = "terminate_workers" -> "TerminateWorkers"
    [] kind = "info_workers" -> "InfoWorkers"
    [] kind = "increase_limit_cr" -> "AddPermits"
    [] kind = "decrease_limit_cr" -> "ForgetPermits"

\* an Err(anyhow::Error) returned by an endpoint
Err(asked) == Did(0, "Err", {}, {}, {}, asked)

\* maintenance.rs:10-121 maintenance_endpoint. The result is None for a
\* request that is not a maintenance request. alive: the manager task runs
\* and takes the message; probe_ok: info_workers (workers.rs:85-124) could
\* read every recorded pid, otherwise its blocking task panics and
\* workers.rs:172-175 drops the reply sender
MaintenanceEndpoint(kind, in, alive, probe_ok) ==
  IF kind \notin MaintenanceKinds THEN None
  ELSE IF kind \in {"add_workers", "increase_limit_cr", "decrease_limit_cr"}
          /\ in.body = "bad_json"
  THEN Some(Err({"body"}))
  ELSE IF kind \in {"add_workers", "increase_limit_cr", "decrease_limit_cr"}
          /\ in.body = "no_field"
  THEN Some(Did(0, "maintenance_endpoint", {}, {}, {}, {"body"}))
  ELSE LET asked == IF kind \in {"add_workers", "increase_limit_cr",
                                 "decrease_limit_cr"}
                    THEN {"body"} ELSE {}
       IN IF kind \notin {"increase_limit_cr", "decrease_limit_cr"} /\ ~alive
          THEN Some(Err(asked))
          ELSE Some(Did(IF kind = "info_workers" /\ ~probe_ok THEN 500
                        ELSE 200,
                        "maintenance_endpoint", {MaintenanceMessage(kind)},
                        {}, {}, asked))

\* a router that wants worker data before it tries the maintenance endpoint
MaintenanceAfterWorkerData(kind, in, alive, probe_ok) ==
  IF MaintenanceEndpoint(kind, in, alive, probe_ok) = None THEN None
  ELSE IF count_ports = 0
  THEN Some(ErrorResponseEndpoint("receive WorkerData", {"GetWorkerData"},
                                  {}))
  ELSE MaintenanceEndpoint(kind, in, alive, probe_ok)

\* mod.rs:50-61: the maintenance endpoint is tried first; its Err becomes a
\* 500, its response is the response of the request, and only its Ok(None)
\* lets the handler go on
Maintenance(kind, in, alive, probe_ok) ==
  LET m == MaintenanceEndpoint(kind, in, alive, probe_ok)
  IN IF m = None THEN None
     ELSE LET d == CHOOSE x \in m : TRUE
          IN IF d.by = "Err"
             THEN Some(ErrorResponseEndpoint("maintenance_endpoint", d.sent,
                                             d.asked))
             ELSE m

\* workers.rs:143-169: the reply to GetWorkerData
WorkerDataReply ==
  IF count_ports = 0 THEN None
  ELSE LET index == RoundRobinIndex(index_port, count_ports)
       IN Some([index |-> index, port |-> ports[index + 1], ports |-> ports])

\* a router that looks for the tile on disk before it has worker data
RoutedDiskFirst(cfg, kind, reply, in) ==
  IF reply = None
  THEN IF kind = "tile" /\ in.uri_ok /\ GetTileFromDisk(in.disk) # None
       THEN Did(CHOOSE s \in GetTileFromDisk(in.disk) : TRUE,
                "tile_endpoint", {"GetWorkerData"}, {}, {},
                {"uri_ok", "disk"})
       ELSE ErrorResponseEndpoint("receive WorkerData", {"GetWorkerData"}, {})
  ELSE Endpoints(cfg, kind, CHOOSE wd \in reply : TRUE, in)

\* mod.rs:63-231 with helpers.rs:128-138: the request once the manager has
\* replied to GetWorkerData
Routed(cfg, kind, reply, in) ==
  IF reply = None
  THEN ErrorResponseEndpoint("receive WorkerData", {"GetWorkerData"}, {})
  ELSE Endpoints(cfg, kind, CHOOSE wd \in reply : TRUE, in)

\* mod.rs:50-78 for a request the maintenance endpoint does not answer:
\* get_worker_data (helpers.rs:118-139, the manager's side is GetWorkerData),
\* then mod.rs:80-231
\* A JobDetail sent by the pyramid endpoint is received by job_add_to_queue
\* (job.rs:53-66), the one receiver of the unbounded channel, which pushes
\* it; an error of the push is logged only.
HandleRouted(kind, in) ==
  /\ Maintenance(kind, in, manager_alive, TRUE) = None
  /\ handled' =
       Handled(kind, in,
               IF manager_alive
               THEN Routed(config, kind, WorkerDataReply, in)
               ELSE ErrorResponseEndpoint("receive WorkerData", {}, {}))
  /\ IF manager_alive THEN WorkerData ELSE UNCHANGED workerVars
  /\ IF "JobDetail" \in handled'.did.sent
     THEN /\ Cardinality(DOMAIN row_lock) < MaxScheduled
          /\ IF in.push = "ok" THEN Push(in.scheduled_for)
             ELSE UNCHANGED jobVars
     ELSE UNCHANGED jobVars
  /\ UNCHANGED semVars
  /\ UNCHANGED <<config, reloadVars, dsVars, clusterVars>>

\* GET /api/tile/...
HandleTile(in) == HandleRouted("tile", in)

\* POST /api/pyramid
HandlePyramid(in) == HandleRouted("pyramid", in)

\* any path of the last arm (mod.rs:215-231), which is also where
\* /maintenance/add_workers, increase_limit_cr and decrease_limit_cr end
\* with a method other than POST
HandleOther(in) == HandleRouted("other", in)

\* mod.rs:50-61 with maintenance.rs:17-32: POST /maintenance/add_workers;
\* the manager handles the message as AddWorkers
HandleAddWorkers(body, count, bindables) ==
  LET in == [NoInput EXCEPT !.body = body]
      m == Maintenance("add_workers", in, manager_alive, TRUE)
  IN IF m = None THEN HandleRouted("add_workers", in)
     ELSE LET did == CHOOSE d \in m : TRUE
          IN /\ handled' = Handled("add_workers", in, did)
             /\ IF "AddWorkers" \in did.sent
                THEN AddWorkers(count, bindables)
                ELSE UNCHANGED <<semVars, workerVars, jobVars>>
             /\ UNCHANGED <<config, reloadVars, dsVars, clusterVars>>

\* maintenance.rs:33-42 /maintenance/reload_workers
HandleReloadWorkers(kill_ok, bindables) ==
  LET m == Maintenance("reload_workers", NoInput, manager_alive, TRUE)
  IN IF m = None THEN HandleRouted("reload_workers", NoInput)
     ELSE LET did == CHOOSE d \in m : TRUE
          IN /\ handled' = Handled("reload_workers", NoInput, did)
             /\ IF "ReloadWorkers" \in did.sent
                THEN ReloadWorkers(kill_ok, bindables)
                ELSE UNCHANGED <<semVars, workerVars, jobVars>>
             /\ UNCHANGED <<config, reloadVars, dsVars, clusterVars>>

\* maintenance.rs:43-52 /maintenance/terminate_workers
HandleTerminateWorkers(kill_ok) ==
  LET m == Maintenance("terminate_workers", NoInput, manager_alive, TRUE)
  IN IF m = None THEN HandleRouted("terminate_workers", NoInput)
     ELSE LET did == CHOOSE d \in m : TRUE
          IN /\ handled' = Handled("terminate_workers", NoInput, did)
             /\ IF "TerminateWorkers" \in did.sent
                THEN TerminateWorkers(kill_ok)
                ELSE UNCHANGED <<semVars, workerVars, jobVars>>
             /\ UNCHANGED <<config, reloadVars, dsVars, clusterVars>>

\* maintenance.rs:53-77 /maintenance/info_workers, answered by
\* workers.rs:170-182
HandleInfoWorkers(probe_ok) ==
  LET m == Maintenance("info_workers", NoInput, manager_alive, probe_ok)
  IN IF m = None THEN HandleRouted("info_workers", NoInput)
     ELSE /\ handled' = Handled("info_workers", NoInput, CHOOSE d \in m : TRUE)
          /\ UNCHANGED <<semVars, workerVars, jobVars>>
          /\ UNCHANGED <<config, reloadVars, dsVars, clusterVars>>

\* maintenance.rs:78-117 POST /maintenance/increase_limit_cr and
\* decrease_limit_cr; the semaphore service handles the message as
\* MaintenanceChangeLimit
HandleChangeLimit(kind, body) ==
  LET in == [NoInput EXCEPT !.body = body]
      m == Maintenance(kind, in, manager_alive, TRUE)
  IN IF m = None THEN HandleRouted(kind, in)
     ELSE /\ handled' = Handled(kind, in, CHOOSE d \in m : TRUE)
          /\ UNCHANGED <<semVars, workerVars, jobVars>>
          /\ UNCHANGED <<config, reloadVars, dsVars, clusterVars>>

\* every port of the range is free whenever the manager asks for one
AllBindable(count) == [i \in 1..count |-> PortRange]

\* config_app.json: master and address; no request was handled yet
RouterInit ==
  /\ config \in Configs
  /\ handled = Handled("none", NoInput, Did(0, "none", {}, {}, {}, {}))

\* the pyramid endpoint and the requests that change the pool
PyramidNext ==
  \/ \E in \in PyramidInputs : HandlePyramid(in)
  \/ \E count \in 1..MaxAddWorkers :
       HandleAddWorkers("ok", count, AllBindable(count))
  \/ \E kill_ok \in BOOLEAN :
       HandleReloadWorkers(kill_ok, AllBindable(processes_workers))
  \/ \E kill_ok \in BOOLEAN : HandleTerminateWorkers(kill_ok)

\* every request but the scheduled pyramid requests that reach the table of
\* the queue, which PyramidNext has
RouterNext ==
  \/ \E in \in TileInputs : HandleTile(in)
  \/ \E in \in PyramidInputs : HandlePyramid(in) /\ queue' = queue
  \/ \E in \in OtherInputs : HandleOther(in)
  \/ \E body \in Bodies \ ScheduledBodies, count \in 1..MaxAddWorkers :
       HandleAddWorkers(body, count, AllBindable(count))
  \/ \E kill_ok \in BOOLEAN :
       HandleReloadWorkers(kill_ok, AllBindable(processes_workers))
  \/ \E kill_ok \in BOOLEAN : HandleTerminateWorkers(kill_ok)
  \/ \E probe_ok \in BOOLEAN : HandleInfoWorkers(probe_ok)
  \/ \E kind \in {"increase_limit_cr", "decrease_limit_cr"},
        body \in Bodies \ ScheduledBodies : HandleChangeLimit(kind, body)

(***************************************************************************)
(* Properties of the request router                                        *)
(***************************************************************************)
\* the datasource the last request was told about
TheDs == CHOOSE d \in handled.in.ds : TRUE

\* the last request was a tile request whose tile the tile endpoint found
\* neither on disk nor in the cache DB, for a datasource with use_cache_only
CacheOnlyMiss ==
  /\ handled.kind = "tile"
  /\ handled.did.by = "tile_endpoint"
  /\ {"disk", "cache", "ds"} \subseteq handled.did.asked
  /\ handled.in.uri_ok
  /\ handled.in.disk = "miss"
  /\ handled.in.cache \in {"miss", "absent", "init"}
  /\ handled.in.ds # None
  /\ TheDs.use_cache_only = Some(TRUE)

\* C11 (cache-only short-circuit): a tile request for a datasource whose
\* use_cache_only is true that misses the disk cache and the cache DB is
\* answered 204; no GetPermit was sent to the admission service and no
\* request went to a worker or to a peer.
CacheOnlyShortCircuit ==
  CacheOnlyMiss =>
    /\ handled.did.status = 204
    /\ "GetPermit" \notin handled.did.sent
    /\ handled.did.worker = {}
    /\ handled.did.peer = {}

\* C11 witness: such a request was answered, after the registry had handed
\* out the cache DB's handle and the tile was not in it.
CacheOnlyShortCircuitWitness ==
  /\ CacheOnlyMiss
  /\ handled.in.cache = "miss"
  /\ "GetSQLiteClient" \in handled.did.sent
  /\ handled.did.status = 204

\* the last request was a tile request or an immediate pyramid POST that the
\* master looked up, for a datasource on another server
ForOtherServer ==
  /\ config.master
  /\ handled.kind \in {"tile", "pyramid"}
  /\ "ds" \in handled.did.asked
  /\ handled.kind = "pyramid" => handled.in.body = "ok"
  /\ handled.in.ds # None
  /\ TheDs.addr # None
  /\ TheDs.addr # config.address

\* C12 (master forwarding): on a master, a tile request and a pyramid POST
\* without scheduled_for whose datasource names a host:port other than the
\* server's own address are answered with the peer's response: the request
\* went to that peer, to no local worker, and neither GetPermit nor a message
\* to the cache-DB registry was sent.
MasterForwarding ==
  ForOtherServer =>
    /\ handled.did.by = "master_endpoint"
    /\ handled.did.peer = TheDs.addr
    /\ handled.did.status = handled.in.peer_status
    /\ handled.did.worker = {}
    /\ handled.did.sent \cap {"GetPermit", "GetSQLiteClient",
                              "AddSQLiteClient", "RemoveSQLiteClient"} = {}

\* C12 witness: a pyramid POST was forwarded by a master that has an address
\* of its own.
MasterForwardingWitness ==
  /\ ForOtherServer
  /\ handled.kind = "pyramid"
  /\ config.address # None
  /\ handled.did.peer # {}

\* a step that handled a request of one of the kinds
Handles(kinds) ==
  /\ <<handled, workerVars>>' # <<handled, workerVars>>
  /\ handled'.kind \in kinds

RoutedKinds == {"tile", "pyramid", "other"}

\* C16 (no workers, no service): the reply to GetWorkerData is None exactly
\* when the pool has no workers; a request that is not a maintenance request
\* and arrives in that state is answered 500 for the missing worker data,
\* whatever it asks for, and is not answered so while the pool has workers
\* and the manager runs; an empty pool stays empty until add_workers or
\* reload_workers.
NoWorkersNoService ==
  [][/\ WorkerDataReply = None <=> ports = <<>>
     /\ (count_ports = 0 /\ Handles(RoutedKinds)) =>
          handled'.did = ErrorResponseEndpoint("receive WorkerData",
                                               {"GetWorkerData"}, {})
     /\ (count_ports > 0 /\ manager_alive /\ Handles(RoutedKinds)) =>
          handled'.did.by # "receive WorkerData"
     /\ (ports = <<>> /\ ports' # <<>>) =>
          handled'.kind \in {"add_workers", "reload_workers"}]_vars

\* C16 witness: a tile request was answered 500 while the pool was empty
\* after terminate_workers.
NoWorkersNoServiceWitness ==
  /\ ports = <<>>
  /\ handled.kind = "tile"
  /\ handled.did.status = 500
  /\ handled.did.by = "receive WorkerData"

\* a step that handled a pyramid POST carrying an RFC 3339 scheduled_for on a
\* master whose pool has workers
SchedulesOnMaster ==
  /\ Handles({"pyramid"})
  /\ config.master
  /\ manager_alive
  /\ count_ports > 0
  /\ handled'.in.body = "scheduled"

\* the step added exactly one row, with the fields of row, to the table
AddsOneRow(row) ==
  \E j \in DOMAIN queue' \ DOMAIN queue :
    /\ DOMAIN queue' = DOMAIN queue \cup {j}
    /\ queue'[j] = row
    /\ \A k \in DOMAIN queue : queue'[k] = queue[k]

\* C23 (scheduling on a master): a POST /api/pyramid whose scheduled_for is
\* an RFC 3339 date, handled by a master whose pool has workers, is answered
\* 202 by the pyramid endpoint; a JobDetail is the one message sent besides
\* the request for worker data, no request goes to a worker or to a peer, no
\* handle of the registry is touched, and when the INSERT succeeds the table
\* has exactly one row more: a Pyramid job, Queued, no failed attempt,
\* scheduled for the date of the request.
ScheduledOnMaster ==
  [][SchedulesOnMaster =>
       /\ handled'.did.status = 202
       /\ handled'.did.by = "pyramid_endpoint"
       /\ handled'.did.sent = {"GetWorkerData", "JobDetail"}
       /\ handled'.did.worker = {}
       /\ handled'.did.peer = {}
       /\ sqlite_clients' = sqlite_clients
       /\ IF handled'.in.push = "ok"
          THEN AddsOneRow([status |-> "Queued",
                           scheduled_for |-> handled'.in.scheduled_for,
                           failed_attempts |-> 0, jt |-> "Pyramid"])
          ELSE queue' = queue]_vars

\* C23 witness: a master answered 202 to a request scheduled for MaxTime, and
\* the table holds its row next to one pushed before.
ScheduledOnMasterWitness ==
  /\ config.master
  /\ handled.kind = "pyramid"
  /\ handled.did.status = 202
  /\ handled.in.scheduled_for = MaxTime
  /\ handled.in.push = "ok"
  /\ Cardinality(DOMAIN queue) = MaxScheduled
  /\ \E j \in DOMAIN queue :
       /\ \A k \in DOMAIN queue : k <= j
       /\ queue[j] = PushedRow("Pyramid", MaxTime)

\* a step in which the pyramid endpoint handled a request locally: one
\* without scheduled_for, or any on a server that is no master
PyramidLocally ==
  /\ Handles({"pyramid"})
  /\ handled'.did.by = "pyramid_endpoint"
  /\ \/ handled'.in.body = "ok"
     \/ ~config.master /\ handled'.in.body \in ScheduledBodies

\* C29 (local pyramid requests go to ports[0]): a pyramid request that the
\* pyramid endpoint handles locally sends RemoveSQLiteClient and no
\* JobDetail, contacts no peer, and, unless try_init_mbtiles answers 404
\* for an unknown datasource, is proxied to the first port of the pool and
\* answered with that worker's response, whichever worker the round robin
\* handed out.
LocalPyramidToFirstPort ==
  [][PyramidLocally =>
       /\ "RemoveSQLiteClient" \in handled'.did.sent
       /\ "JobDetail" \notin handled'.did.sent
       /\ handled'.did.peer = {}
       /\ queue' = queue
       /\ IF handled'.in.cache = "not_found"
          THEN /\ handled'.did.worker = {}
               /\ handled'.did.status = 404
          ELSE /\ handled'.did.worker = {ports[1]}
               /\ handled'.did.status =
                    ProxyStatus(handled'.in.worker_outcome)]_vars

\* C29 witness: a server that is no master proxied a pyramid request with
\* scheduled_for to the first port while the round robin had handed out
\* another one.
LocalPyramidToFirstPortWitness ==
  /\ ~config.master
  /\ handled.kind = "pyramid"
  /\ handled.in.body = "scheduled"
  /\ "RemoveSQLiteClient" \in handled.did.sent
  /\ handled.did.worker = {ports[1]}
  /\ served # <<>>
  /\ served[Len(served)].port # ports[1]

\* the last request was a tile request or an immediate pyramid POST that
\* the master looked up
MasterLookedUp ==
  /\ config.master
  /\ handled.kind \in {"tile", "pyramid"}
  /\ handled.kind = "pyramid" => handled.in.body = "ok"
  /\ "GetDataSource" \in handled.did.sent
  /\ "ds" \in handled.did.asked

\* C30 (master fall-through and unknown datasource): on a master, a tile
\* request or a pyramid POST without scheduled_for whose datasource has no
\* host or port, or names the server's own address, is handled by the local
\* endpoint and goes to no peer; one whose id is unknown is answered 404 by
\* the master endpoint, and nothing but the requests for worker data and for
\* the datasource was sent: no worker, no peer, no permit, no registry.
MasterFallThrough ==
  MasterLookedUp =>
    /\ handled.in.ds = None =>
         /\ handled.did.status = 404
         /\ handled.did.by = "master_endpoint"
         /\ handled.did.sent = {"GetWorkerData", "GetDataSource"}
         /\ handled.did.worker = {}
         /\ handled.did.peer = {}
    /\ (handled.in.ds # None
          /\ (TheDs.addr = None \/ TheDs.addr = config.address)) =>
         /\ handled.did.by = IF handled.kind = "tile" THEN "tile_endpoint"
                             ELSE "pyramid_endpoint"
         /\ handled.did.peer = {}

\* C30 witness: a master that has an address handled a pyramid POST for a
\* datasource at that address itself and proxied it to a worker.
MasterFallThroughWitness ==
  /\ MasterLookedUp
  /\ handled.kind = "pyramid"
  /\ handled.in.ds # None
  /\ config.address # None
  /\ TheDs.addr = config.address
  /\ handled.did.by = "pyramid_endpoint"
  /\ handled.did.worker # {}

(***************************************************************************)
(* Scheduled reloader (tasks/reload_workers.rs, reload_workers_maintenance)*)
(* and the manager's GetWorkerState (tasks/workers.rs)                     *)
(***************************************************************************)
\* reload_workers.rs:23-25 Duration::from_minutes, in seconds
FromMinutes(minutes) == minutes * 60

\* chrono::Utc::now() moves on
UtcTick ==
  /\ utc_now + ClockStep <= MaxNow
  /\ utc_now' = utc_now + ClockStep
  /\ UNCHANGED <<last_reload_time, pyramids_running, sched, triggers, manual>>
  /\ UNCHANGED <<semVars, workerVars, jobVars, routerVars, dsVars, clusterVars>>

\* the pyramid tracker (table pyramids of data/tiler.db, read at
\* db/mod.rs:181-189): a worker starts a pyramid (a row with complete = 0
\* appears) or the last running pyramid completes
PyramidChange ==
  /\ pyramids_running' = ~pyramids_running
  /\ UNCHANGED <<utc_now, last_reload_time, sched, triggers, manual>>
  /\ UNCHANGED <<semVars, workerVars, jobVars, routerVars, dsVars, clusterVars>>

\* reload_workers.rs:63-76: the calendar trigger fires, the closure starts
\* and sends GetWorkerState (perform runs one closure at a time)
Trigger ==
  /\ sched.pc = "idle"
  /\ Len(triggers) < MaxTriggers
  /\ sched' = [sched EXCEPT !.pc = "state"]
  /\ UNCHANGED <<utc_now, last_reload_time, pyramids_running, triggers,
                 manual>>
  /\ UNCHANGED <<semVars, workerVars, jobVars, routerVars, dsVars, clusterVars>>

\* a manager without the interlock
WorkerStateNoInterlock(lrt, t) == "Running"

\* workers.rs:281-299: the state the manager answers at time t
WorkerState(lrt, t) ==
  IF lrt # None /\ t - (CHOOSE x \in lrt : TRUE) < 60
  THEN "Reloading" ELSE "Running"

\* a manager that takes every reload of the pool for the last reload
LastReloadTimeCountsReloads(message, state, lrt, t) ==
  IF \/ message = "ReloadWorkers"
     \/ message = "GetWorkerState" /\ state = "Running"
  THEN Some(t) ELSE lrt

\* workers.rs:139-302: last_reload_time after the manager handled a message
\* at time t. It is assigned in the GetWorkerState arm only (workers.rs:289,
\* 297), where the answer is Running; state is the answer of that arm
LastReloadTime(message, state, lrt, t) ==
  IF message = "GetWorkerState" /\ state = "Running" THEN Some(t) ELSE lrt

\* workers.rs:280-302 GetWorkerState in the manager, and reload_workers.rs:
\* 77-91 in the closure that receives the reply: Reloading ends the closure,
\* Running starts the loop, whose first tick completes at once. With the
\* manager task gone the reply is an error and the closure goes on as well
GetWorkerState ==
  /\ sched.pc = "state"
  /\ LET state == IF manager_alive
                  THEN WorkerState(last_reload_time, utc_now) ELSE "Err"
     IN /\ last_reload_time' =
             LastReloadTime("GetWorkerState", state, last_reload_time, utc_now)
        /\ triggers' = Append(triggers, [at |-> utc_now, state |-> state,
                                         checks |-> <<>>, sent |-> 0])
        /\ sched' = IF state = "Reloading"
                    THEN [sched EXCEPT !.pc = "idle"]
                    ELSE [pc |-> "tick", i |-> 0, delay |-> utc_now]
  /\ UNCHANGED <<utc_now, pyramids_running, manual>>
  /\ UNCHANGED <<semVars, workerVars, jobVars, routerVars, dsVars, clusterVars>>

\* db/mod.rs:169-202 check_running_pyramids: opened says whether data/tiler.db
\* could be opened and queried
CheckRunningPyramids(opened) ==
  IF ~opened THEN "Err" ELSE IF pyramids_running THEN "true" ELSE "false"

\* what the loop does after a turn that sent nothing (reload_workers.rs:93,
\* 96): the next turn waits for the next tick of the interval, the last turn
\* ends the closure
NextTurn(i) ==
  IF i + 1 < worker_reload_repeat_attempts
  THEN [pc |-> "tick", i |-> i + 1,
        delay |-> sched.delay + FromMinutes(worker_reload_repeat_minutes)]
  ELSE [sched EXCEPT !.pc = "idle"]

\* a closure that goes on checking after it has sent ReloadWorkers
AfterReloadSentKeepsLooping(i) == NextTurn(i)

\* reload_workers.rs:113-114: the break after ReloadWorkers was sent
AfterReloadSent(i) == [sched EXCEPT !.pc = "idle"]

\* the check of this turn noted in the history, and the message if one was sent
Noted(check, sent) ==
  [triggers EXCEPT ![Len(triggers)] =
     [@ EXCEPT !.checks = Append(@, check), !.sent = @ + sent]]

\* reload_workers.rs:93-120: one turn of the loop. ReloadWorkers is handled
\* by the manager as ReloadWorkers; with the manager task gone
\* send_async(..).await.unwrap() panics and the reloader task ends
ReloadAttempt(opened, kill_ok) ==
  /\ sched.pc = "tick"
  /\ utc_now >= sched.delay
  /\ LET check == CheckRunningPyramids(opened)
     IN IF check = "false"
        THEN IF manager_alive
             THEN /\ ReloadWorkers(kill_ok, AllBindable(processes_workers))
                  /\ triggers' = Noted(check, 1)
                  /\ sched' = AfterReloadSent(sched.i)
             ELSE /\ triggers' = Noted(check, 0)
                  /\ sched' = [sched EXCEPT !.pc = "panicked"]
                  /\ UNCHANGED <<semVars, workerVars, jobVars>>
        ELSE /\ triggers' = Noted(check, 0)
             /\ sched' = NextTurn(sched.i)
             /\ UNCHANGED <<semVars, workerVars, jobVars>>
  /\ UNCHANGED <<utc_now, last_reload_time, pyramids_running, manual>>
  /\ UNCHANGED <<routerVars, dsVars, clusterVars>>

\* workers.rs:139 last_reload_time = None; db/mod.rs:149 init_db marks the
\* pyramids of the previous run complete; the scheduler waits for its first
\* trigger
ReloadInit ==
  /\ utc_now = 0
  /\ last_reload_time = None
  /\ pyramids_running = FALSE
  /\ sched = [pc |-> "idle", i |-> 0, delay |-> 0]
  /\ triggers = <<>>
  /\ manual = <<>>

ReloadNext ==
  \/ UtcTick
  \/ PyramidChange
  \/ Trigger
  \/ GetWorkerState
  \/ \E opened \in BOOLEAN, kill_ok \in BOOLEAN :
       ReloadAttempt(opened, kill_ok)

\* the messages of MessageMaintenanceWorkers that request handlers send:
\* GetWorkerData by every routed request (mod.rs:50-78), the others by the
\* /maintenance endpoints (maintenance.rs)
ManagerMessages ==
  {"GetWorkerData", "InfoWorkers", "AddWorkers", "ReloadWorkers",
   "TerminateWorkers"}

\* workers.rs:141-279: the manager handles such a message while the
\* scheduled reloader is at work. InfoWorkers (workers.rs:170-182) only
\* reads the pids of the workers
ManagerHandles(message, kill_ok) ==
  /\ Len(manual) < MaxManual
  /\ CASE message = "GetWorkerData" -> GetWorkerData
       [] message = "InfoWorkers" ->
            manager_alive /\ UNCHANGED <<semVars, workerVars, jobVars>>
       [] message = "AddWorkers" -> AddWorkers(1, AllBindable(1))
       [] message = "ReloadWorkers" ->
            ReloadWorkers(kill_ok, AllBindable(processes_workers))
       [] message = "TerminateWorkers" -> TerminateWorkers(kill_ok)
  /\ last_reload_time' =
       LastReloadTime(message, "none", last_reload_time, utc_now)
  /\ manual' = Append(manual, [message |-> message,
                               at |-> IF message = "ReloadWorkers"
                                      THEN utc_now ELSE 0])
  /\ UNCHANGED <<utc_now, pyramids_running, sched, triggers>>
  /\ UNCHANGED <<routerVars, dsVars, clusterVars>>

\* the scheduled reloader and the requests that reach the manager
InterlockNext ==
  \/ ReloadNext
  \/ \E message \in ManagerMessages, kill_ok \in BOOLEAN :
       ManagerHandles(message, kill_ok)

(***************************************************************************)
(* Properties of the scheduled reloader                                    *)
(***************************************************************************)
\* the triggers before trigger b that the manager answered Running
RunningBefore(b) == {a \in 1..(b - 1) : triggers[a].state = "Running"}

\* trigger b came less than 60 s after a trigger that was answered Running
WithinInterlock(b) ==
  \E a \in RunningBefore(b) : triggers[b].at - triggers[a].at < 60

\* C13 (reload interlock): a trigger of the scheduled reloader whose
\* GetWorkerState is handled less than 60 s after the manager answered
\* Running to an earlier trigger (the moment the manager records as the last
\* reload) is answered Reloading and sends no ReloadWorkers and checks
\* nothing; a trigger that comes later than that is answered Running, and
\* the manager records its moment.
ReloadInterlock ==
  /\ \A b \in DOMAIN triggers :
       /\ WithinInterlock(b) =>
            /\ triggers[b].state # "Running"
            /\ triggers[b].sent = 0
            /\ triggers[b].state = "Reloading" => triggers[b].checks = <<>>
       /\ triggers[b].state = "Reloading" => WithinInterlock(b)
       /\ triggers[b].state = "Running" =>
            /\ last_reload_time # None
            /\ \A t \in last_reload_time : t >= triggers[b].at
  /\ \A t \in last_reload_time :
       \E b \in DOMAIN triggers :
         triggers[b].state = "Running" /\ triggers[b].at = t

\* C13 witness: a trigger reloaded the workers, and the next one, later but
\* less than 60 s later and with no pyramid running, was answered Reloading.
ReloadInterlockWitness ==
  \E a, b \in DOMAIN triggers :
    /\ a < b
    /\ triggers[a].state = "Running" /\ triggers[a].sent = 1
    /\ triggers[b].at > triggers[a].at
    /\ triggers[b].at - triggers[a].at < 60
    /\ triggers[b].state = "Reloading"
    /\ ~pyramids_running

\* the manager has just answered Running to a GetWorkerState
AnswersRunning ==
  /\ Len(triggers') = Len(triggers) + 1
  /\ triggers'[Len(triggers')].state = "Running"
  /\ triggers'[Len(triggers')].at = utc_now

\* C31 (manual reloads do not count): the manager's last_reload_time changes
\* only in a step in which GetWorkerState is answered Running, so
\* ReloadWorkers, AddWorkers, TerminateWorkers, GetWorkerData and InfoWorkers
\* leave it as it is; and a GetWorkerState is answered Reloading only when a
\* GetWorkerState was answered Running less than 60 s before it, whatever
\* reloads the maintenance endpoint asked for in between.
ManualReloadNotCounted ==
  /\ [][/\ last_reload_time' # last_reload_time =>
            AnswersRunning /\ last_reload_time' = Some(utc_now)
        /\ manual' # manual => last_reload_time' = last_reload_time]_vars
  /\ [](\A b \in DOMAIN triggers :
          triggers[b].state = "Reloading" => WithinInterlock(b))

\* C31 witness: the pool was reloaded through the maintenance endpoint, and
\* a GetWorkerState that came later, but less than 60 s later, was answered
\* Running (no trigger was answered Running in the 60 s before it); each of
\* the other messages was handled as well.
ManualReloadNotCountedWitness ==
  /\ \E i \in DOMAIN manual, b \in DOMAIN triggers :
       /\ manual[i].message = "ReloadWorkers"
       /\ triggers[b].at > manual[i].at
       /\ triggers[b].at - manual[i].at < 60
       /\ triggers[b].state = "Running"
       /\ ~WithinInterlock(b)
  /\ \E i \in DOMAIN manual : manual[i].message # "ReloadWorkers"

\* C14 (one reload per trigger): a trigger sends ReloadWorkers at most once
\* and makes at most worker_reload_repeat_attempts checks; it sends at the
\* first check that finds no running pyramid, which is its last check, and
\* it sends nothing when every check found a running pyramid (or failed).
OneReloadPerTrigger ==
  \A k \in DOMAIN triggers :
    LET checks == triggers[k].checks
    IN /\ triggers[k].sent <= 1
       /\ Len(checks) <= worker_reload_repeat_attempts
       /\ \A j \in DOMAIN checks : checks[j] = "false" => j = Len(checks)
       /\ triggers[k].sent = 1 =>
            checks # <<>> /\ checks[Len(checks)] = "false"
       /\ (\A j \in DOMAIN checks : checks[j] # "false") =>
            triggers[k].sent = 0

\* C14 witness: a trigger found a pyramid running at its first check and
\* sent ReloadWorkers at its second, and another trigger found a pyramid
\* running at every check and sent nothing.
OneReloadPerTriggerWitness ==
  \E k, n \in DOMAIN triggers :
    /\ triggers[k].checks = <<"true", "false">>
    /\ triggers[k].sent = 1
    /\ Len(triggers[n].checks) = worker_reload_repeat_attempts
    /\ \A j \in DOMAIN triggers[n].checks : triggers[n].checks[j] = "true"
    /\ triggers[n].sent = 0
    /\ sched.pc = "idle"

(***************************************************************************)
(* Cache-DB handle registry (tasks/sqlite_clients.rs)                      *)
(*                                                                         *)
(* A cache DB is named by its datasource: the path of datasource ds is     *)
(* {cwd}/tiles/{ds}/{ds}.mbtiles and its parent is the directory           *)
(* tiles/{ds}. The registry task takes one message at a time; a message is *)
(* handled where it is sent.                                               *)
(***************************************************************************)
Datasources == 1..NumDatasources

\* the handles the map holds for a path
ClientsOf(map, path) == {e.client : e \in {x \in map : x.path = path}}

\* an insert that leaves the previous value of the key in the map
HashMapInsertKeepsOld(map, path, client) ==
  map \cup {[path |-> path, client |-> client]}

\* HashMap::insert (sqlite_clients.rs:48 and 59): the value of the key is
\* replaced
HashMapInsert(map, path, client) ==
  {e \in map : e.path # path} \cup {[path |-> path, client |-> client]}

\* HashMap::remove (sqlite_clients.rs:73)
HashMapRemove(map, path) == {e \in map : e.path # path}

\* ClientBuilder::open with SQLITE_OPEN_READ_WRITE and no SQLITE_OPEN_CREATE
\* (sqlite_clients.rs:40-45, db/mod.rs:348-353 with 409-415): the file has
\* to exist
CanOpen(path) == path \in mbtiles_files /\ clients_opened < MaxClients

\* the record left in `sqlite_done`
Done(msg, path, before, reply) ==
  [msg |-> msg, path |-> path, before |-> before, reply |-> reply]

\* utils.rs:213-262 try_init_mbtiles with db/mod.rs:257-345, the part of
\* init_mbtiles_db that creates the cache DB. known: Postgres has the
\* datasource; mbtiles: its flag; with_tx: the caller handed the registry's
\* sender over (tile.rs:121 does, pyramid.rs does not)
TryInitMbtiles(ds, known, mbtiles, with_tx) ==
  /\ ds \notin tiles_dirs
  /\ known
  /\ tiles_dirs' = tiles_dirs \cup {ds}
  /\ IF mbtiles /\ ds \notin mbtiles_files
     THEN /\ mbtiles_files' = mbtiles_files \cup {ds}
          /\ initing' = IF with_tx THEN initing \cup {ds} ELSE initing
     ELSE UNCHANGED <<mbtiles_files, initing>>
  /\ UNCHANGED <<sqlite_clients, closed_clients, clients_opened,
                 lazy_clients, sqlite_done, fan, ds_handled>>
  /\ UNCHANGED <<semVars, workerVars, jobVars, routerVars,
                 reloadVars, clusterVars, removing>>

\* sqlite_clients.rs:33-57 GetSQLiteClient, sent by get_mbtile
\* (db/mod.rs:204-222)
GetSQLiteClient(path) ==
  LET before == ClientsOf(sqlite_clients, path)
  IN /\ IF before # {}
        THEN /\ sqlite_done' = Done("GetSQLiteClient", path, before, before)
             /\ UNCHANGED <<sqlite_clients, clients_opened, lazy_clients>>
        ELSE IF CanOpen(path)
        THEN LET cl == clients_opened + 1
             IN /\ sqlite_clients' = HashMapInsert(sqlite_clients, path, cl)
                /\ clients_opened' = cl
                /\ lazy_clients' = lazy_clients \cup {cl}
                /\ sqlite_done' = Done("GetSQLiteClient", path, before,
                                       Some(cl))
        ELSE /\ sqlite_done' = Done("GetSQLiteClient", path, before, None)
             /\ UNCHANGED <<sqlite_clients, clients_opened, lazy_clients>>
     /\ UNCHANGED <<closed_clients, tiles_dirs, mbtiles_files, initing, fan,
                    ds_handled>>
     /\ UNCHANGED <<semVars, workerVars, jobVars, routerVars,
                    reloadVars, clusterVars, removing>>

\* db/mod.rs:346-356 with 403-429 add_sqlite_client, the end of
\* init_mbtiles_db: the handle is opened by the sender, then
\* sqlite_clients.rs:58-60 AddSQLiteClient. A failed open sends nothing.
AddSQLiteClient(path) ==
  LET before == ClientsOf(sqlite_clients, path)
  IN /\ path \in initing
     /\ initing' = initing \ {path}
     /\ IF CanOpen(path)
        THEN LET cl == clients_opened + 1
             IN /\ sqlite_clients' = HashMapInsert(sqlite_clients, path, cl)
                /\ clients_opened' = cl
                /\ sqlite_done' = Done("AddSQLiteClient", path, before,
                                       Some(cl))
        ELSE UNCHANGED <<sqlite_clients, clients_opened, sqlite_done>>
     /\ UNCHANGED <<closed_clients, lazy_clients, tiles_dirs, mbtiles_files,
                    fan, ds_handled>>
     /\ UNCHANGED <<semVars, workerVars, jobVars, routerVars,
                    reloadVars, clusterVars, removing>>

\* sqlite_clients.rs:61-67 CloseSQLiteClients, sent by the ctrl-c handler
\* (serve.rs:184-187): every handle is closed and stays in the map
CloseSQLiteClients ==
  /\ closed_clients' =
       closed_clients \cup {e.client : e \in sqlite_clients}
  /\ sqlite_done' = Done("CloseSQLiteClients", 0, {}, None)
  /\ UNCHANGED <<sqlite_clients, clients_opened, lazy_clients, tiles_dirs,
                 mbtiles_files, initing, fan, ds_handled>>
  /\ UNCHANGED <<semVars, workerVars, jobVars, routerVars,
                 reloadVars, clusterVars, removing>>

\* sqlite_clients.rs:68-120 RemoveSQLiteClient: the registry's own
\* variables and the file system; the errors of remove_dir_all and
\* remove_file are dropped (sqlite_clients.rs:86-95, 103-111)
RemoveSQLiteClient(path, remove_tiles_folder, remove_tiles_db) ==
  LET before == ClientsOf(sqlite_clients, path)
  IN /\ sqlite_done' = Done("RemoveSQLiteClient", path, before, None)
     /\ IF before # {}
        THEN /\ sqlite_clients' = HashMapRemove(sqlite_clients, path)
             /\ closed_clients' = closed_clients \cup before
             /\ IF remove_tiles_folder = Some(TRUE)
                THEN /\ tiles_dirs' = tiles_dirs \ {path}
                     /\ mbtiles_files' = mbtiles_files \ {path}
                ELSE IF remove_tiles_db = Some(TRUE)
                THEN /\ mbtiles_files' = mbtiles_files \ {path}
                     /\ UNCHANGED tiles_dirs
                ELSE UNCHANGED <<tiles_dirs, mbtiles_files>>
        ELSE UNCHANGED <<sqlite_clients, closed_clients, tiles_dirs,
                         mbtiles_files>>
     /\ UNCHANGED <<clients_opened, lazy_clients, initing>>

\* job.rs:234-240: the runner drops the cache DB before the pyramid is
\* rebuilt
RemoveTilesDb(path) ==
  /\ RemoveSQLiteClient(path, None, Some(TRUE))
  /\ UNCHANGED <<fan, ds_handled>>
  /\ UNCHANGED <<semVars, workerVars, jobVars, routerVars,
                 reloadVars, clusterVars, removing>>

\* pyramid.rs:79-96: a local pyramid request sends RemoveSQLiteClient for
\* the cache DB of its datasource
PyramidRemoveSQLiteClient(ds) ==
  /\ ds \notin removing
  /\ RemoveSQLiteClient(ds, None, Some(TRUE))
  /\ removing' = removing \cup {ds}
  /\ UNCHANGED <<fan, ds_handled>>
  /\ UNCHANGED <<semVars, workerVars, jobVars, routerVars,
                 reloadVars, clusterVars>>

\* pyramid.rs:98-103 with 130-164 remove_mbtiles_files, 100 ms later: the
\* cache DB and its -wal and -shm files are removed when all three exist.
\* wal_shm: the -wal and the -shm file exist; they are SQLite's, made by a
\* connection in WAL mode of the balancer or of a worker. The
\* try_init_mbtiles that follows (pyramid.rs:104) is TryInitMbtiles without
\* the registry's sender.
RemoveMbtilesFiles(ds, wal_shm) ==
  /\ ds \in removing
  /\ removing' = removing \ {ds}
  /\ mbtiles_files' =
       IF ds \in mbtiles_files /\ wal_shm
       THEN mbtiles_files \ {ds}
       ELSE mbtiles_files
  /\ UNCHANGED <<sqlite_clients, closed_clients, clients_opened,
                 lazy_clients, tiles_dirs, initing, sqlite_done, fan,
                 ds_handled>>
  /\ UNCHANGED <<semVars, workerVars, jobVars, routerVars,
                 reloadVars, clusterVars>>

(***************************************************************************)
(* Datasource fan-out (handles/endpoints/datasource.rs)                    *)
(*                                                                         *)
(* One datasource request is in flight at a time. `fan` is the handler     *)
(* between the spawn of its relay tasks and the join; a task's result is   *)
(* None while the task runs.                                               *)
(***************************************************************************)
\* results of hyper_reverse_proxy::call: Err(ProxyError) or the worker's
\* response
RelayOutcomes == {transport_error, 200, 500}

NoFan ==
  [kind |-> "none", body |-> "ok", ds |-> 0, port |-> 0, write |-> None,
   tasks |-> <<>>]

\* the record left in `ds_handled`: status 0 when the handler panicked
DsDid(kind, status, by, f, sent) ==
  [kind |-> kind, status |-> status, by |-> by, ds |-> f.ds,
   port |-> f.port, write |-> f.write, tasks |-> f.tasks, sent |-> sent]

\* datasource.rs:38-65 and 110-146: one task per port of WorkerData.ports
Spawn(wd) == [p \in Range(wd.ports) |-> None]

\* datasource.rs:66-68 and 148-153: every JoinHandle has been awaited
Joined(tasks) == \A p \in DOMAIN tasks : tasks[p] # None

\* the relays that returned Err(ProxyError) (datasource.rs:133-142)
Failed(tasks) == {p \in DOMAIN tasks : tasks[p] = Some(transport_error)}

\* a delete that answers 200 whatever the relays returned
DeleteStatusIgnoresRelays(tasks) == 200

\* datasource.rs:148-169: is_err and the status of the response
DeleteStatus(tasks) == IF Failed(tasks) # {} THEN 500 ELSE 200

\* mod.rs:50-78 for a datasource request: it is no maintenance request,
\* get_worker_data comes next (the manager's side is GetWorkerData) and the
\* request ends there with 500 when there is no worker data
FanBegin(kind, started) ==
  /\ fan.kind = "none"
  /\ Maintenance(kind, NoInput, manager_alive, TRUE) = None
  /\ IF manager_alive
     THEN /\ GetWorkerData
          /\ IF WorkerDataReply = None
             THEN /\ ds_handled' = DsDid(kind, 500, "receive WorkerData",
                                         NoFan, {"GetWorkerData"})
                  /\ UNCHANGED fan
             ELSE /\ fan' = started
                  /\ UNCHANGED ds_handled
     ELSE /\ ds_handled' = DsDid(kind, 500, "receive WorkerData", NoFan, {})
          /\ UNCHANGED <<fan, semVars, workerVars, jobVars>>
  /\ UNCHANGED <<sqlite_clients, closed_clients, clients_opened,
                 lazy_clients, tiles_dirs, mbtiles_files, initing,
                 sqlite_done>>
  /\ UNCHANGED <<routerVars, reloadVars, clusterVars, removing>>

\* mod.rs:167-186 with datasource.rs:94-146: DELETE /api/datasources up to
\* the spawn of the relays
DatasourceDeleteBegin(body, ds) ==
  FanBegin("datasource_delete",
           LET wd == CHOOSE w \in WorkerDataReply : TRUE
           IN [kind |-> "datasource_delete", body |-> body, ds |-> ds,
               port |-> 0, write |-> None, tasks |-> Spawn(wd)])

\* mod.rs:187-203 with datasource.rs:19-65: a datasource write, forwarded to
\* WorkerData.port and awaited, up to the spawn of the GET relays
DatasourceBegin(outcome) ==
  FanBegin("datasource",
           LET wd == CHOOSE w \in WorkerDataReply : TRUE
           IN [kind |-> "datasource", body |-> "ok", ds |-> 0,
               port |-> wd.port, write |-> Some(outcome),
               tasks |-> Spawn(wd)])

\* datasource.rs:50-61 and 125-142: a relay task gets its result
Relay(p, outcome) ==
  /\ p \in DOMAIN fan.tasks
  /\ fan.tasks[p] = None
  /\ fan' = [fan EXCEPT !.tasks[p] = Some(outcome)]
  /\ UNCHANGED <<sqlite_clients, closed_clients, clients_opened,
                 lazy_clients, tiles_dirs, mbtiles_files, initing,
                 sqlite_done, ds_handled>>
  /\ UNCHANGED <<semVars, workerVars, jobVars, routerVars,
                 reloadVars, clusterVars, removing>>

\* datasource.rs:148-222 with mod.rs:181-185: the join and what follows it.
\* A body that is no JSON is an Err (500 by error_response_endpoint), a
\* body without datasource_id a panic of the handler; both leave before
\* RemoveSQLiteClient is sent
DatasourceDeleteEnd ==
  /\ fan.kind = "datasource_delete"
  /\ Joined(fan.tasks)
  /\ fan' = NoFan
  /\ IF fan.body = "ok"
     THEN /\ ds_handled' =
               DsDid(fan.kind, DeleteStatus(fan.tasks),
                     "datasource_delete_endpoint", fan,
                     {"GetWorkerData", "RemoveSQLiteClient",
                      "UpdateDataSources"})
          /\ RemoveSQLiteClient(fan.ds, Some(TRUE), None)
     ELSE /\ ds_handled' =
               IF fan.body = "bad_json"
               THEN DsDid(fan.kind, 500, "error_response_endpoint", fan,
                          {"GetWorkerData"})
               ELSE DsDid(fan.kind, 0, "panic", fan, {"GetWorkerData"})
          /\ UNCHANGED <<sqlite_clients, closed_clients, clients_opened,
                         lazy_clients, tiles_dirs, mbtiles_files, initing,
                         sqlite_done>>
  /\ UNCHANGED <<semVars, workerVars, jobVars, routerVars,
                 reloadVars, clusterVars, removing>>

\* datasource.rs:66-91: the join, UpdateDataSources and the response, which
\* is the worker's response to the write or 500 when the write's call was
\* an Err
DatasourceEnd ==
  /\ fan.kind = "datasource"
  /\ Joined(fan.tasks)
  /\ fan' = NoFan
  /\ ds_handled' =
       DsDid(fan.kind, ProxyStatus(CHOOSE o \in fan.write : TRUE),
             "datasource_endpoint", fan,
             {"GetWorkerData", "UpdateDataSources"})
  /\ UNCHANGED <<sqlite_clients, closed_clients, clients_opened,
                 lazy_clients, tiles_dirs, mbtiles_files, initing,
                 sqlite_done>>
  /\ UNCHANGED <<semVars, workerVars, jobVars, routerVars,
                 reloadVars, clusterVars, removing>>

\* mod.rs:44: a path as its elements, uri.path().split("/")
DataSources == <<"", "api", "datasources">>
DataSourcesLoadFiles == <<"", "api", "datasources", "load_files">>
DataSourcesReloadFiles == <<"", "api", "datasources", "reload_files">>

\* the paths of the datasource API: the collection, one datasource, the two
\* file endpoints
DatasourcePaths ==
  {DataSources, Append(DataSources, "ds1"), DataSourcesLoadFiles,
   DataSourcesReloadFiles}

Methods == {"GET", "POST", "PUT", "PATCH", "DELETE"}

\* str::starts_with for paths whose last element is complete
StartsWith(path, prefix) ==
  /\ Len(path) >= Len(prefix)
  /\ SubSeq(path, 1, Len(prefix)) = prefix

\* mod.rs:167-231: the arm of handle that takes a request to a path of the
\* datasource API (no arm before these matches such a path)
Route(path, method) ==
  IF StartsWith(path, DataSources) /\ method = "DELETE"
  THEN "datasource_delete"
  ELSE IF /\ \/ StartsWith(path, DataSources) /\ Len(path) = 3
             \/ StartsWith(path, DataSourcesLoadFiles)
             \/ StartsWith(path, DataSourcesReloadFiles)
          /\ method \in {"POST", "PUT", "PATCH", "GET"}
  THEN "datasource"
  ELSE "other"

\* mod.rs:215-231 after mod.rs:50-78: the last arm proxies the request to
\* WorkerData.port and answers with that worker's response
BlindProxy(outcome) ==
  /\ fan.kind = "none"
  /\ Maintenance("other", NoInput, manager_alive, TRUE) = None
  /\ IF manager_alive
     THEN /\ GetWorkerData
          /\ ds_handled' =
               IF WorkerDataReply = None
               THEN DsDid("other", 500, "receive WorkerData", NoFan,
                          {"GetWorkerData"})
               ELSE LET wd == CHOOSE w \in WorkerDataReply : TRUE
                    IN DsDid("other", ProxyStatus(outcome), "handle",
                             [NoFan EXCEPT !.port = wd.port,
                                           !.write = Some(outcome)],
                             {"GetWorkerData"})
     ELSE /\ ds_handled' = DsDid("other", 500, "receive WorkerData", NoFan, {})
          /\ UNCHANGED <<semVars, workerVars, jobVars>>
  /\ UNCHANGED <<sqlite_clients, closed_clients, clients_opened,
                 lazy_clients, tiles_dirs, mbtiles_files, initing,
                 sqlite_done, fan>>
  /\ UNCHANGED <<routerVars, reloadVars, clusterVars, removing>>

\* mod.rs:50-231 for a request to a path of the datasource API
DatasourcesRequest(path, method, body, ds, outcome) ==
  CASE Route(path, method) = "datasource_delete" ->
         DatasourceDeleteBegin(body, ds)
    [] Route(path, method) = "datasource" -> DatasourceBegin(outcome)
    [] OTHER -> BlindProxy(outcome)

\* serve.rs: the registry starts with an empty map (sqlite_clients.rs:29);
\* the tiles directory holds what earlier runs left
DsInit ==
  /\ sqlite_clients = {}
  /\ closed_clients = {}
  /\ clients_opened = 0
  /\ lazy_clients = {}
  /\ mbtiles_files \in SUBSET Datasources
  /\ tiles_dirs \in {d \in SUBSET Datasources : mbtiles_files \subseteq d}
  /\ initing = {}
  /\ removing = {}
  /\ sqlite_done = Done("none", 0, {}, None)
  /\ fan = NoFan
  /\ ds_handled = DsDid("none", 0, "none", NoFan, {})

\* ... and of a server whose tiles directory is empty
DsQuiet ==
  /\ DsInit
  /\ tiles_dirs = {}

\* the registry with its clients: the tile endpoint (get_mbtile,
\* try_init_mbtiles), the pyramid rebuild, the ctrl-c handler and the
\* datasource delete
SqliteNext ==
  \/ \E ds \in Datasources, mbtiles \in BOOLEAN, with_tx \in BOOLEAN :
       TryInitMbtiles(ds, TRUE, mbtiles, with_tx)
  \/ \E ds \in Datasources : GetSQLiteClient(ds)
  \/ \E ds \in Datasources : AddSQLiteClient(ds)
  \/ \E ds \in Datasources : RemoveTilesDb(ds)
  \/ CloseSQLiteClients
  \/ \E ds \in Datasources : DatasourceDeleteBegin("ok", ds)
  \/ \E p \in PortRange : Relay(p, 200)
  \/ DatasourceDeleteEnd

\* the registry with the tile endpoint, the local pyramid requests and the
\* ctrl-c handler
RebuildNext ==
  \/ \E ds \in Datasources, mbtiles \in BOOLEAN, with_tx \in BOOLEAN :
       TryInitMbtiles(ds, TRUE, mbtiles, with_tx)
  \/ \E ds \in Datasources : GetSQLiteClient(ds)
  \/ \E ds \in Datasources : AddSQLiteClient(ds)
  \/ \E ds \in Datasources : PyramidRemoveSQLiteClient(ds)
  \/ \E ds \in Datasources, wal_shm \in BOOLEAN :
       RemoveMbtilesFiles(ds, wal_shm)
  \/ CloseSQLiteClients

\* the datasource requests and their relays
FanNext ==
  \/ \E path \in DatasourcePaths, method \in Methods,
        body \in {"ok", "bad_json", "no_field"}, ds \in Datasources,
        outcome \in RelayOutcomes :
       DatasourcesRequest(path, method, body, ds, outcome)
  \/ \E p \in PortRange, outcome \in RelayOutcomes : Relay(p, outcome)
  \/ DatasourceDeleteEnd
  \/ DatasourceEnd

(***************************************************************************)
(* Properties of the handle registry and of the datasource fan-out         *)
(***************************************************************************)
\* the handles of a path that the registry holds and has not closed
LiveClientsOf(path) == ClientsOf(sqlite_clients, path) \ closed_clients

\* C17: at any time, over any sequence of GetSQLiteClient, AddSQLiteClient,
\* RemoveSQLiteClient and CloseSQLiteClients, the registry holds at most one
\* handle per cache-DB path, so at most one live one; an AddSQLiteClient
\* for a path with a lazily opened handle replaces that handle.
OneLiveHandlePerPath ==
  \A path \in Datasources :
    /\ Cardinality(ClientsOf(sqlite_clients, path)) <= 1
    /\ Cardinality(LiveClientsOf(path)) <= 1

\* an AddSQLiteClient has just replaced a live, lazily opened handle
OneLiveHandlePerPathWitness ==
  /\ sqlite_done.msg = "AddSQLiteClient"
  /\ sqlite_done.before # {}
  /\ sqlite_done.before \subseteq lazy_clients \ closed_clients
  /\ ClientsOf(sqlite_clients, sqlite_done.path) = sqlite_done.reply

\* C38: when a local pyramid request that has sent RemoveSQLiteClient
\* deletes the cache-DB files of its datasource, the registry holds no
\* handle for that cache DB, whatever GetSQLiteClient messages of tile
\* requests were handled between the two.
RebuildInvalidatesCache ==
  [][\A ds \in Datasources :
       (RemoveMbtilesFiles(ds, TRUE) /\ ds \in mbtiles_files)
       => ClientsOf(sqlite_clients', ds) = {}]_vars

\* C39: the reply of GetSQLiteClient is never a handle that the registry
\* has closed, be it by RemoveSQLiteClient or by CloseSQLiteClients: it is
\* a handle that is open, or None.
NeverReturnsClosedHandle ==
  sqlite_done.msg = "GetSQLiteClient"
  => sqlite_done.reply \cap closed_clients = {}

\* the response of a datasource delete that got worker data
DeleteAnswered ==
  /\ ds_handled.kind = "datasource_delete"
  /\ ds_handled.by # "receive WorkerData"

DeleteRemovesHandleAndFolder ==
  [][(/\ fan.kind = "datasource_delete"
      /\ fan'.kind = "none"
      /\ "RemoveSQLiteClient" \in ds_handled'.sent)
     => /\ ClientsOf(sqlite_clients', fan.ds) = {}
        /\ ClientsOf(sqlite_clients, fan.ds) \subseteq closed_clients'
        /\ fan.ds \notin tiles_dirs']_vars

\* the outcomes of a datasource write: the write's and the refreshes'
Outcomes(did) ==
  did.write \cup UNION {did.tasks[p] : p \in DOMAIN did.tasks}

\* C20: a datasource write is forwarded to the current round-robin worker,
\* GET /api/datasources goes to every other worker, every relay is joined
\* before the response, and the response reflects the worst outcome among
\* the write and the refreshes.
WriteReflectsWorstOutcome ==
  (ds_handled.kind = "datasource" /\ ds_handled.by = "datasource_endpoint")
  => /\ \A p \in Range(ports) \ {ds_handled.port} :
          p \in DOMAIN ds_handled.tasks
     /\ Joined(ds_handled.tasks)
     /\ \A o \in Outcomes(ds_handled) : ds_handled.status >= ProxyStatus(o)

\* C21, as claimed: every POST, PUT, PATCH or GET to /api/datasources,
\* /api/datasources/{id}, /api/datasources/load_files or
\* /api/datasources/reload_files that finds worker data starts the datasource
\* fan-out: the write goes to a worker and a refresh is spawned for every
\* port of the pool (UpdateDataSources follows the join).
DatasourcePathsFanOut ==
  [][\A path \in DatasourcePaths, method \in {"POST", "PUT", "PATCH", "GET"},
        body \in {"ok", "bad_json", "no_field"}, ds \in Datasources,
        outcome \in RelayOutcomes :
       (/\ DatasourcesRequest(path, method, body, ds, outcome)
        /\ manager_alive
        /\ count_ports > 0) =>
         /\ fan'.kind = "datasource"
         /\ DOMAIN fan'.tasks = Range(ports)]_vars

(***************************************************************************)
(* Masters refreshing each other (tasks/datasources.rs, utils.rs)          *)
(*                                                                         *)
(* Every server of Addrs runs the proxy-balancer with its own Config. A    *)
(* request to the datasource API ends with UpdateDataSources to the        *)
(* server's datasources_maintenance task (the relays to the workers that   *)
(* come before it are the fan-out above); a master then asks the servers   *)
(* its datasources name to refresh, and the refresh is itself a request to *)
(* the datasource API of the peer.                                         *)
(***************************************************************************)
\* datasource.rs:71 and datasource.rs:198-199: is_header_master of the
\* UpdateDataSources an endpoint sends; header: the request carries
\* MASTER_HEADER
IsHeaderMaster(endpoint, header) ==
  IF endpoint = "datasource_delete" THEN FALSE ELSE header

\* utils.rs:21-88 worker_load_dss: one GET /api/datasources, with
\* MASTER_HEADER, to every host:port of the datasource set except
\* config.address; an address named twice is asked once
WorkerLoadDss(s, cfg, map_dss, write) ==
  {[from |-> s, to |-> a, header |-> TRUE, write |-> write] :
     a \in {addr \in map_dss : cfg.address # Some(addr)}}

\* mod.rs:181-194 with datasource.rs:66-82 and datasource.rs:155-209: server
\* s answers a request to the datasource API. The write endpoint always ends
\* with UpdateDataSources, the delete endpoint when the body is JSON, the
\* blind proxy never. write names the client's request this one stems from
DatasourcesHandled(s, path, method, header, body, write) ==
  LET endpoint == Route(path, method)
  IN rx_dss' =
       IF \/ endpoint = "other"
          \/ endpoint = "datasource_delete" /\ body # "ok"
       THEN rx_dss
       ELSE [rx_dss EXCEPT ![s] =
               Append(@, [is_header_master |-> IsHeaderMaster(endpoint, header),
                          header |-> header, endpoint |-> endpoint,
                          write |-> write])]

\* a client sends a request to the datasource API of server s
ClientRequest(s, path, method, header, body) ==
  /\ written < MaxWrites
  /\ written' = written + 1
  /\ DatasourcesHandled(s, path, method, header, body, written + 1)
  /\ UNCHANGED <<configs, requests, refreshes>>
  /\ UNCHANGED <<semVars, workerVars, jobVars, routerVars, reloadVars, dsVars>>

\* datasources.rs:190-201: the datasource set is read again (map_dss: the
\* servers it names now) and a master that was not told of the header calls
\* worker_load_dss
UpdateDataSources(s, map_dss) ==
  /\ rx_dss[s] # <<>>
  /\ rx_dss' = [rx_dss EXCEPT ![s] = Tail(@)]
  /\ LET m == Head(rx_dss[s])
         sent == IF configs[s].master /\ ~m.is_header_master
                 THEN WorkerLoadDss(s, configs[s], map_dss, m.write)
                 ELSE {}
     IN /\ requests' = requests \cup sent
        /\ refreshes' = [refreshes EXCEPT ![m.write] = @ + Cardinality(sent)]
  /\ UNCHANGED <<configs, written>>
  /\ UNCHANGED <<semVars, workerVars, jobVars, routerVars, reloadVars, dsVars>>

\* utils.rs:53-83 and the peer's mod.rs:188-194: the spawned request reaches
\* the peer, which handles GET /api/datasources as any other request to the
\* datasource API, or it fails or times out, which is only logged
PeerRefresh(req, outcome) ==
  /\ req \in requests
  /\ requests' = requests \ {req}
  /\ IF outcome = "ok"
     THEN DatasourcesHandled(req.to, DataSources, "GET", req.header, "ok",
                             req.write)
     ELSE rx_dss' = rx_dss
  /\ UNCHANGED <<configs, written, refreshes>>
  /\ UNCHANGED <<semVars, workerVars, jobVars, routerVars, reloadVars, dsVars>>

\* config.rs: every server has its own config_app.json; address is optional
\* and names the server itself
ClusterInit ==
  /\ configs \in
       {c \in [Addrs -> [master : BOOLEAN,
                         address : {None} \cup {Some(a) : a \in Addrs}]] :
          \A s \in Addrs : c[s].address \in {None, Some(s)}}
  /\ rx_dss = [s \in Addrs |-> <<>>]
  /\ requests = {}
  /\ written = 0
  /\ refreshes = [w \in 1..MaxWrites |-> 0]

\* ... and of a cluster without a master
ClusterQuiet ==
  /\ ClusterInit
  /\ configs = [s \in Addrs |-> [master |-> FALSE, address |-> None]]

ClusterNext ==
  \/ \E s \in Addrs, path \in DatasourcePaths, method \in Methods,
        header \in BOOLEAN, body \in {"ok", "bad_json"} :
       ClientRequest(s, path, method, header, body)
  \/ \E s \in Addrs, map_dss \in SUBSET Addrs : UpdateDataSources(s, map_dss)
  \/ \E req \in requests, outcome \in {"ok", "err"} : PeerRefresh(req, outcome)

(***************************************************************************)
(* Properties of the masters' refreshes                                    *)
(***************************************************************************)
\* an UpdateDataSources that stems from a request with the Master-Server
\* header sends no refresh
SuppressedByHeader ==
  [][\A s \in Addrs, map_dss \in SUBSET Addrs :
       (UpdateDataSources(s, map_dss) /\ Head(rx_dss[s]).header) =>
         requests' \subseteq requests]_vars

\* every refresh in flight carries the Master-Server header
RefreshesCarryHeader == \A r \in requests : r.header

\* no refresh goes to the address its sender is configured with
NoRefreshToOwnAddress ==
  \A r \in requests : configs[r.from].address # Some(r.to)

\* a request of a client causes at most one refresh per server of the
\* cluster
FinitelyManyRefreshes == \A w \in 1..MaxWrites : refreshes[w] <= NumAddrs

\* C22, as claimed: an UpdateDataSources caused by a request that carries
\* the Master-Server header triggers no outbound peer refresh, every outbound
\* peer refresh carries that header, a master never refreshes its own
\* address, and so one datasource write causes only finitely many refresh
\* requests.
MasterLoopSuppression ==
  /\ SuppressedByHeader
  /\ []RefreshesCarryHeader
  /\ []NoRefreshToOwnAddress
  /\ []FinitelyManyRefreshes

\* a specification of one subsystem starts the other ones in the state they
\* have when every port of the range could be bound at startup
WorkerQuiet ==
  /\ WorkerInit
  /\ ports = SpawnLoop(<<>>, [i \in 1..processes_workers |-> PortRange], 1)

\* ... and the router on a server that is no master
RouterQuiet ==
  /\ RouterInit
  /\ config = [master |-> FALSE, address |-> None]

Init ==
  /\ SemInit /\ WorkerQuiet /\ JobInit /\ RouterQuiet /\ ReloadInit /\ DsQuiet
  /\ ClusterQuiet

SemNext ==
  \/ \E r \in Reqs, p \in Ports : TileGetPermit(r, p)
  \/ \E r \in Reqs, outcome \in {"ok", "err"} : TileFinish(r, outcome)
  \/ \E r \in Reqs : TileFinishNoPermit(r)
  \/ \E r \in Reqs : TileCancel(r)
  \/ \E t \in {"AddPermits", "ForgetPermits"}, n \in 1..MaxDelta :
       MaintenanceChangeLimit(t, n)
  \/ WaiterLoop
  \/ \E ord \in Perms(DOMAIN semaphores_map) : ReleaseWatch(ord)

WorkerNext ==
  \/ GetWorkerData /\ UNCHANGED <<routerVars, reloadVars, dsVars, clusterVars>>
  \/ \E count \in 1..MaxAddWorkers :
       \E bindables \in Bindables(count) :
         AddWorkers(count, bindables) /\ UNCHANGED <<routerVars, reloadVars,
                                                     dsVars, clusterVars>>
  \/ \E kill_ok \in BOOLEAN, bindables \in Bindables(processes_workers) :
       ReloadWorkers(kill_ok, bindables) /\ UNCHANGED <<routerVars, reloadVars,
                                                        dsVars, clusterVars>>
  \/ \E kill_ok \in BOOLEAN :
       TerminateWorkers(kill_ok) /\ UNCHANGED <<routerVars, reloadVars,
                                                dsVars, clusterVars>>

SemSpec == Init /\ [][SemNext]_vars

\* the pool as any startup can leave it
WorkerSpecInit ==
  /\ SemInit /\ WorkerInit /\ JobInit /\ RouterQuiet /\ ReloadInit /\ DsQuiet
  /\ ClusterQuiet

WorkerSpec == WorkerSpecInit /\ [][WorkerNext]_vars

\* the router under every configuration
RouterSpecInit ==
  /\ SemInit /\ WorkerQuiet /\ JobInit /\ RouterInit /\ ReloadInit /\ DsQuiet
  /\ ClusterQuiet

RouterSpec == RouterSpecInit /\ [][RouterNext]_vars

PyramidSpec == RouterSpecInit /\ [][PyramidNext]_vars

ReloadSpec == Init /\ [][ReloadNext]_vars

InterlockSpec == Init /\ [][InterlockNext]_vars

DsSpecInit ==
  /\ SemInit /\ WorkerQuiet /\ JobInit /\ RouterQuiet /\ ReloadInit /\ DsInit
  /\ ClusterQuiet

SqliteSpec == DsSpecInit /\ [][SqliteNext]_vars

RebuildSpec == DsSpecInit /\ [][RebuildNext]_vars

FanSpec == Init /\ [][FanNext]_vars

ClusterSpecInit ==
  /\ SemInit /\ WorkerQuiet /\ JobInit /\ RouterQuiet /\ ReloadInit /\ DsQuiet
  /\ ClusterInit

ClusterSpec == ClusterSpecInit /\ [][ClusterNext]_vars

JobSpec == Init /\ [][JobNext]_vars

\* both loops of the semaphore service keep running (tokio schedules each
\* task again after every await) and every proxied call ends, so that every
\* held permit is released
SemFairSpec ==
  /\ SemSpec
  /\ WF_vars(WaiterLoop)
  /\ WF_vars(\E ord \in Perms(DOMAIN semaphores_map) : ReleaseWatch(ord))
  /\ \A r \in Reqs : WF_vars(TileFinish(r, "ok") \/ TileFinishNoPermit(r))

\* every job_worker task keeps running: tokio schedules it again after each
\* sleep and each await
JobFairSpec ==
  /\ JobSpec
  /\ \A r \in Runners : WF_vars(RunnerStep(r))

Spec == SemSpec

====
